---- MODULE Spec2Model ----
(***************************************************************************)
(* A model of quonitor's core services (src-tauri/src/services):           *)
(* the Scheduler (start / stop / set_interval / run_fetch_cycle and the    *)
(* spawned timer loop), the Aggregator (fetch_all_quotas and               *)
(* fetch_account_quota with store_quota), the Cache and the Notifier       *)
(* (check_and_notify with its settings gate, quiet hours and tiers).       *)
(*                                                                         *)
(* Conventions.  An Option<T> is a set with at most one element: None is   *)
(* {} and Some(v) is {v}.  A Rust String that the code inspects (a         *)
(* setting's value) is a sequence of one-character strings.  One action is *)
(* one step between two accesses of shared state (a lock, the store, the   *)
(* provider, the timer); the statements after such an access that touch    *)
(* only locals belong to the same step.                                    *)
(***************************************************************************)
EXTENDS Integers, Sequences, FiniteSets, TLC

----------------------------------------------------------------------------
(* Bounds of the model *)

\* tasks alive at the same time: a start() that is still running, or the loop
\* it spawned
MaxTasks == 2
\* writes applied to the cache in a row of set and remove calls
MaxCacheOps == 3
\* tasks inside a Cache method at the same time
MaxCallers == 2
\* calls of fetch_account_quota by overlapping fetches of one account
MaxFetches == 3
\* calls of fetch_account_quota on its own
MaxDirectFetches == 2
\* clock advances between notification checks
MaxClockSteps == 2
\* bytes of a plaintext given to the cipher
MaxPlainLen == 2
\* the greatest byte value; it is the one byte that is not valid UTF-8
MaxByte == 2
\* bytes of the authentication tag of a ciphertext
TagLen == 2
\* starts of the application on one machine
MaxStarts == 2
\* invocations of the set_setting command that can overlap
MaxSettingCalls == 2

----------------------------------------------------------------------------
(* Option<T> *)

None == {}
Some(v) == {v}
IsSome(o) == o # {}
Unwrap(o) == CHOOSE v \in o : TRUE

----------------------------------------------------------------------------
(* Strings the code parses or compares *)

Str_true == <<"t", "r", "u", "e">>
Str_false == <<"f", "a", "l", "s", "e">>

Str_empty == <<>>
Str_ab_00 == <<"a", "b", ":", "0", "0">>
Str_25_00 == <<"2", "5", ":", "0", "0">>

DigitChars == {"0", "1", "2", "3", "4", "5", "6", "7", "8", "9"}

DigitVal(c) ==
    CASE c = "0" -> 0 [] c = "1" -> 1 [] c = "2" -> 2 [] c = "3" -> 3
      [] c = "4" -> 4 [] c = "5" -> 5 [] c = "6" -> 6 [] c = "7" -> 7
      [] c = "8" -> 8 [] c = "9" -> 9

\* the character of a decimal digit
DigitChar(d) == CHOOSE c \in DigitChars : DigitVal(c) = d

\* an hour of the day written "HH:00", the format is_quiet_hours expects
HourText(h) == <<DigitChar(h \div 10), DigitChar(h % 10), ":", "0", "0">>

RECURSIVE DigitsValue(_, _)
\* the decimal value of a sequence of digits, accumulated left to right
DigitsValue(s, acc) ==
    IF s = <<>> THEN acc ELSE DigitsValue(Tail(s), acc * 10 + DigitVal(Head(s)))

RECURSIVE StripZeros(_)
\* the digits without their leading zeros
StripZeros(s) ==
    IF s # <<>> /\ Head(s) = "0" THEN StripZeros(Tail(s)) ELSE s

\* the longest run of significant digits that is below u32::MAX (4294967295)
\* whatever the digits are
U32SafeDigits == 9

\* str::parse::<u32>: an optional leading "+", then one or more ASCII digits,
\* no other character, value within u32; anything else is an Err (.ok() = None).
\* The strings of the model have at most U32SafeDigits significant digits; a
\* longer one is taken to overflow.
ParseU32(s) ==
    LET body == IF s # <<>> /\ Head(s) = "+" THEN Tail(s) ELSE s
    IN IF body = <<>> \/ \E i \in 1..Len(body) : body[i] \notin DigitChars
       THEN None
       ELSE IF Len(StripZeros(body)) > U32SafeDigits THEN None
            ELSE Some(DigitsValue(body, 0))

\* str::parse::<u64>, for the strings of the model (all below u64::MAX): the
\* same grammar as parse::<u32>
ParseU64(s) ==
    LET body == IF s # <<>> /\ Head(s) = "+" THEN Tail(s) ELSE s
    IN IF body = <<>> \/ \E i \in 1..Len(body) : body[i] \notin DigitChars
       THEN None
       ELSE Some(DigitsValue(body, 0))

RECURSIVE FirstSegment(_)
\* s.split(':').next(): the characters before the first ':' (all of s if none)
FirstSegment(s) ==
    IF s = <<>> \/ Head(s) = ":" THEN <<>> ELSE <<Head(s)>> \o FirstSegment(Tail(s))

----------------------------------------------------------------------------
(* The universe of the model *)

\* account identifiers in the accounts table
AccountIds == {"a1", "a2"}

\* ProviderRegistry::new: the provider identifiers of the registry
RegisteredProviders == {"openai", "anthropic", "google", "github"}

\* seconds a tier stays debounced: one_day_ago = now - 86400
DaySeconds == 86400

\* values that set_interval is called with (seconds)
Intervals == {1, 2}

\* the interval, in seconds, that main() reads from the settings and passes to
\* Scheduler::new: the sleeps of the model are this short
InitialInterval == 1

----------------------------------------------------------------------------
(* State *)

VARIABLES
    running,             \* Scheduler.running: Arc<RwLock<bool>>
    interval_seconds,    \* Scheduler.interval_seconds: Arc<RwLock<u64>>
    task,                \* the task of each successful start(): the rest of
                         \* start() and then the loop it spawns
    manual,              \* the run_fetch_cycle() call made by refresh_now
    cycle,               \* the fetch cycle each runner is executing, with the
                         \* record of what that cycle has done so far
    cache,               \* Cache.data: account id -> Option<QuotaData>
    accounts,            \* store: the accounts table, in row order
    quota_snapshots,     \* store: the rows of quota_snapshots
    model_usage,         \* store: the rows of model_usage
    notification_state,  \* store: account id -> Option<NotificationState>
    settings,            \* store: key -> Option<value>
    now,                 \* Utc::now().timestamp()
    clock_steps,         \* how often the clock has advanced
    last_check,          \* the most recent direct check_and_notify call
    last_start,          \* what the most recent start() call did
    cache_log,           \* the writes applied to Cache.data, in order
    cache_read,          \* what the most recent Cache::get or get_all returned
    cache_call,          \* the Cache method each caller is in, and the guard
                         \* of Cache.data it holds
    fetch,               \* the single-account fetches in flight, and the order
                         \* in which the provider served them
    adding,              \* the add_account call and the task it spawns
    cipher,              \* CryptoService: the key it holds and its last call
    keys,                \* the OS credential store, the key file and what
                         \* get_or_create_master_key did with them
    setting_call,        \* the set_setting calls in flight
    notify_call,         \* the check_and_notify calls in flight, statement by
                         \* statement
    removing,            \* the remove_account call and what it has done
    locking              \* the guards held on the RwLocks of the Scheduler
                         \* and the Cache, and where each of their users is

vars == <<running, interval_seconds, task, manual, cycle, cache, accounts,
          quota_snapshots, model_usage, notification_state, settings, now,
          clock_steps, last_check, last_start, cache_log, cache_read,
          cache_call, fetch, adding, cipher, keys, setting_call,
          notify_call, removing, locking>>

sched_vars == <<running, interval_seconds, task, manual, last_start>>
store_vars == <<accounts, quota_snapshots, model_usage>>
notifier_vars == <<notification_state, last_check>>
clock_vars == <<now, clock_steps>>
access_vars == <<cache_log, cache_read, cache_call, fetch>>
service_vars == <<adding, cipher, keys, setting_call>>
race_vars == <<notify_call, removing, locking>>

SettingKeys == {"notifications_enabled", "quiet_hours_start", "quiet_hours_end",
                "refresh_interval_seconds"}

----------------------------------------------------------------------------
(* Notifier (services/notifier.rs) *)

Hours == 0..23

\* Repository::get_setting: the stored value of the key, if any
get_setting(key) == settings[key]

\* Notifier::should_notify_threshold
should_notify_threshold(last_notified, threshold) ==
    IF IsSome(last_notified) THEN Unwrap(last_notified) < threshold ELSE TRUE

\* a calculate_usage_percentage that takes a limit of 0
calculate_usage_percentage_any_limit(quota) ==
    IF IsSome(quota.quota_limit) /\ IsSome(quota.quota_remaining)
    THEN IF Unwrap(quota.quota_limit) >= 0
         THEN Some([num |-> (Unwrap(quota.quota_limit) - Unwrap(quota.quota_remaining)) * 100,
                    den |-> Unwrap(quota.quota_limit)])
         ELSE None
    ELSE None

\* Notifier::calculate_usage_percentage.  The f64 (used / limit) * 100.0 is kept
\* as the exact fraction num / den with den = limit > 0; PctAtLeast compares it
\* with a whole-number threshold.
calculate_usage_percentage(quota) ==
    IF IsSome(quota.quota_limit) /\ IsSome(quota.quota_remaining)
    THEN IF Unwrap(quota.quota_limit) > 0
         THEN Some([num |-> (Unwrap(quota.quota_limit) - Unwrap(quota.quota_remaining)) * 100,
                    den |-> Unwrap(quota.quota_limit)])
         ELSE None
    ELSE None

\* percentage >= t, for percentage = num / den
PctAtLeast(pct, t) == pct.num >= t * pct.den

\* an is_quiet_hours that never wraps past midnight
is_quiet_hours_no_wrap(current_hour) ==
    LET start == get_setting("quiet_hours_start")
        end == get_setting("quiet_hours_end")
    IN IF IsSome(start) /\ IsSome(end)
       THEN IF Unwrap(start) # <<>> /\ Unwrap(end) # <<>>
            THEN LET start_hour == ParseU32(FirstSegment(Unwrap(start)))
                     end_hour == ParseU32(FirstSegment(Unwrap(end)))
                 IN IF IsSome(start_hour) /\ IsSome(end_hour)
                    THEN current_hour >= Unwrap(start_hour)
                         /\ current_hour < Unwrap(end_hour)
                    ELSE FALSE
            ELSE FALSE
       ELSE FALSE

\* an is_quiet_hours that takes equal start and end hours for a window that
\* does not wrap
is_quiet_hours_equal_is_empty(current_hour) ==
    LET start == get_setting("quiet_hours_start")
        end == get_setting("quiet_hours_end")
    IN IF IsSome(start) /\ IsSome(end)
       THEN IF Unwrap(start) # <<>> /\ Unwrap(end) # <<>>
            THEN LET start_hour == ParseU32(FirstSegment(Unwrap(start)))
                     end_hour == ParseU32(FirstSegment(Unwrap(end)))
                 IN IF IsSome(start_hour) /\ IsSome(end_hour)
                    THEN IF Unwrap(start_hour) <= Unwrap(end_hour)
                         THEN current_hour >= Unwrap(start_hour)
                              /\ current_hour < Unwrap(end_hour)
                         ELSE current_hour >= Unwrap(start_hour)
                              \/ current_hour < Unwrap(end_hour)
                    ELSE FALSE
            ELSE FALSE
       ELSE FALSE

\* Notifier::is_quiet_hours, given the hour chrono::Local::now().hour() returns
is_quiet_hours(current_hour) ==
    LET start == get_setting("quiet_hours_start")
        end == get_setting("quiet_hours_end")
    IN IF IsSome(start) /\ IsSome(end)
       THEN IF Unwrap(start) # <<>> /\ Unwrap(end) # <<>>
            THEN LET start_hour == ParseU32(FirstSegment(Unwrap(start)))
                     end_hour == ParseU32(FirstSegment(Unwrap(end)))
                 IN IF IsSome(start_hour) /\ IsSome(end_hour)
                    THEN IF Unwrap(start_hour) < Unwrap(end_hour)
                         THEN current_hour >= Unwrap(start_hour)
                              /\ current_hour < Unwrap(end_hour)
                         ELSE current_hour >= Unwrap(start_hour)
                              \/ current_hour < Unwrap(end_hour)
                    ELSE FALSE
            ELSE FALSE
       ELSE FALSE

\* one local hour for each answer is_quiet_hours can give under the stored
\* settings: check_and_notify depends on the hour through that answer alone
HourChoices ==
    {CHOOSE h \in Hours : is_quiet_hours(h) = quiet :
        quiet \in {is_quiet_hours(h) : h \in Hours}}

\* last_check before any direct call
NoCheck == [called |-> FALSE, fired_95 |-> {}]

\* the NotificationState check_and_notify starts from: the stored row, or the
\* default row with no tier notified
DefaultState(account_id) ==
    [account_id |-> account_id,
     last_75_percent_notified |-> None,
     last_90_percent_notified |-> None,
     last_95_percent_notified |-> None]

\* a chain that tries the tiers from the lowest to the highest
FiringTierLowestFirst(percentage, state, one_day_ago) ==
    IF PctAtLeast(percentage, 75)
       /\ should_notify_threshold(state.last_75_percent_notified, one_day_ago)
    THEN 75
    ELSE IF PctAtLeast(percentage, 90)
            /\ should_notify_threshold(state.last_90_percent_notified, one_day_ago)
    THEN 90
    ELSE IF PctAtLeast(percentage, 95)
            /\ should_notify_threshold(state.last_95_percent_notified, one_day_ago)
    THEN 95
    ELSE 0

\* the if / else if chain of check_and_notify: the tier that is notified for
\* this percentage and state (0 when none is)
FiringTier(percentage, state, one_day_ago) ==
    IF PctAtLeast(percentage, 95)
       /\ should_notify_threshold(state.last_95_percent_notified, one_day_ago)
    THEN 95
    ELSE IF PctAtLeast(percentage, 90)
            /\ should_notify_threshold(state.last_90_percent_notified, one_day_ago)
    THEN 90
    ELSE IF PctAtLeast(percentage, 75)
            /\ should_notify_threshold(state.last_75_percent_notified, one_day_ago)
    THEN 75
    ELSE 0

\* the state with the fired tier's timestamp set to the time of the check
Stamp(state, tier, time) ==
    CASE tier = 95 -> [state EXCEPT !.last_95_percent_notified = Some(time)]
      [] tier = 90 -> [state EXCEPT !.last_90_percent_notified = Some(time)]
      [] tier = 75 -> [state EXCEPT !.last_75_percent_notified = Some(time)]
      [] OTHER -> state

\* a send_notification that returns the error of the notification sink
send_notification_propagates(sink_ok) == IF sink_ok THEN "Ok" ELSE "Err"

\* Notifier::send_notification: the Result it returns when the notification
\* sink shows the notification (sink_ok) or reports an error, which is logged
send_notification(sink_ok) == "Ok"

\* the store calls of check_and_notify, in the order it makes them; a fault
\* names the first one that fails ("none": none of them does)
NotifierFaults == {"none", "get_enabled", "get_quiet_hours", "get_state", "update_state"}

\* a check_and_notify that reads the quiet hours and goes on whatever they are
check_and_notify_any_hour(quota, current_hour, fault, sink_ok) ==
    LET untouched == [result |-> "Ok", table |-> notification_state,
                      sent |-> {}, delivered |-> {}, read_state |-> FALSE,
                      wrote_state |-> FALSE]
        failed == [untouched EXCEPT !.result = "Err"]
        enabled == IF IsSome(get_setting("notifications_enabled"))
                   THEN Unwrap(get_setting("notifications_enabled"))
                   ELSE Str_true
        percentage == calculate_usage_percentage(quota)
        state == IF IsSome(notification_state[quota.account_id])
                 THEN Unwrap(notification_state[quota.account_id])
                 ELSE DefaultState(quota.account_id)
        one_day_ago == now - DaySeconds
        tier == FiringTier(Unwrap(percentage), state, one_day_ago)
        fired == IF tier = 0 THEN {} ELSE {tier}
        after == [untouched EXCEPT !.sent = fired,
                                   !.delivered = IF sink_ok THEN fired ELSE {},
                                   !.read_state = TRUE]
    IN IF fault = "get_enabled" THEN failed
       ELSE IF enabled # Str_true THEN untouched
       ELSE IF fault = "get_quiet_hours" THEN failed
       ELSE IF ~IsSome(percentage) THEN untouched
       ELSE IF fault = "get_state" THEN failed
       ELSE IF fired # {} /\ send_notification(sink_ok) = "Err"
            THEN [after EXCEPT !.result = "Err"]
       ELSE IF fault = "update_state" THEN [after EXCEPT !.result = "Err"]
       ELSE [after EXCEPT
               !.table = [notification_state EXCEPT
                            ![quota.account_id] = Some(Stamp(state, tier, now))],
               !.wrote_state = TRUE]

\* a check_and_notify that updates the notification state only when a tier fired
check_and_notify_saves_on_fire(quota, current_hour, fault, sink_ok) ==
    LET untouched == [result |-> "Ok", table |-> notification_state,
                      sent |-> {}, delivered |-> {}, read_state |-> FALSE,
                      wrote_state |-> FALSE]
        failed == [untouched EXCEPT !.result = "Err"]
        enabled == IF IsSome(get_setting("notifications_enabled"))
                   THEN Unwrap(get_setting("notifications_enabled"))
                   ELSE Str_true
        percentage == calculate_usage_percentage(quota)
        state == IF IsSome(notification_state[quota.account_id])
                 THEN Unwrap(notification_state[quota.account_id])
                 ELSE DefaultState(quota.account_id)
        one_day_ago == now - DaySeconds
        tier == FiringTier(Unwrap(percentage), state, one_day_ago)
        fired == IF tier = 0 THEN {} ELSE {tier}
        after == [untouched EXCEPT !.sent = fired,
                                   !.delivered = IF sink_ok THEN fired ELSE {},
                                   !.read_state = TRUE]
    IN IF fault = "get_enabled" THEN failed
       ELSE IF enabled # Str_true THEN untouched
       ELSE IF fault = "get_quiet_hours" THEN failed
       ELSE IF is_quiet_hours(current_hour) THEN untouched
       ELSE IF ~IsSome(percentage) THEN untouched
       ELSE IF fault = "get_state" THEN failed
       ELSE IF fired # {} /\ send_notification(sink_ok) = "Err"
            THEN [after EXCEPT !.result = "Err"]
       ELSE IF fault = "update_state" THEN [after EXCEPT !.result = "Err"]
       ELSE IF tier = 0 THEN after
       ELSE [after EXCEPT
               !.table = [notification_state EXCEPT
                            ![quota.account_id] = Some(Stamp(state, tier, now))],
               !.wrote_state = TRUE]

\* Notifier::check_and_notify(quota) when the local hour is current_hour, the
\* store fails at `fault` and the notification sink accepts the notification
\* (sink_ok) or refuses it: the Result it returns, the notification_state table
\* it leaves, the tiers it called send_notification for and the ones delivered.
check_and_notify(quota, current_hour, fault, sink_ok) ==
    LET untouched == [result |-> "Ok", table |-> notification_state,
                      sent |-> {}, delivered |-> {}, read_state |-> FALSE,
                      wrote_state |-> FALSE]
        failed == [untouched EXCEPT !.result = "Err"]
        enabled == IF IsSome(get_setting("notifications_enabled"))
                   THEN Unwrap(get_setting("notifications_enabled"))
                   ELSE Str_true
        percentage == calculate_usage_percentage(quota)
        state == IF IsSome(notification_state[quota.account_id])
                 THEN Unwrap(notification_state[quota.account_id])
                 ELSE DefaultState(quota.account_id)
        one_day_ago == now - DaySeconds
        tier == FiringTier(Unwrap(percentage), state, one_day_ago)
        fired == IF tier = 0 THEN {} ELSE {tier}
        after == [untouched EXCEPT !.sent = fired,
                                   !.delivered = IF sink_ok THEN fired ELSE {},
                                   !.read_state = TRUE]
    IN IF fault = "get_enabled" THEN failed
       ELSE IF enabled # Str_true THEN untouched
       ELSE IF fault = "get_quiet_hours" THEN failed
       ELSE IF is_quiet_hours(current_hour) THEN untouched
       ELSE IF ~IsSome(percentage) THEN untouched
       ELSE IF fault = "get_state" THEN failed
       ELSE IF fired # {} /\ send_notification(sink_ok) = "Err"
            THEN [after EXCEPT !.result = "Err"]
       ELSE IF fault = "update_state" THEN [after EXCEPT !.result = "Err"]
       ELSE [after EXCEPT
               !.table = [notification_state EXCEPT
                            ![quota.account_id] = Some(Stamp(state, tier, now))],
               !.wrote_state = TRUE]

----------------------------------------------------------------------------
(* Providers (providers/*.rs) *)

\* QuotaProvider::fetch_quota on success: the QuotaData a provider can return
\* at the given time.  No provider of the registry reports a limit.
ProviderResponses(provider, time) ==
    LET base == [account_id |-> "", timestamp |-> time,
                 quota_limit |-> None, quota_remaining |-> None,
                 model_breakdown |-> <<>>]
    IN CASE provider = "openai" ->
              {[base EXCEPT !.model_breakdown = <<"gpt-4">>]}
         [] provider = "anthropic" ->
              {base, [base EXCEPT !.model_breakdown = <<"claude-3-opus">>],
               [base EXCEPT !.model_breakdown = <<"claude-3-opus", "claude-3-haiku">>]}
         [] provider = "google" ->
              {[base EXCEPT !.account_id = "google-account"]}
         [] provider = "github" -> {base}

----------------------------------------------------------------------------
(* Aggregator (services/aggregator.rs) *)

\* the calls of fetch_account_quota that can fail, in the order it makes them;
\* a fault names the first one that fails ("none": none of them does)
AggregatorFaults == {"none", "get_account", "decrypt", "provider",
                     "insert_quota_snapshot", "insert_model_usage",
                     "update_account_sync_time"}

\* Repository::get_account: the row with this id, if any
get_account(account_id) ==
    {accounts[i] : i \in {j \in 1..Len(accounts) : accounts[j].id = account_id}}

\* the quota_snapshots row store_quota builds from a QuotaData
SnapshotRow(quota) ==
    [account_id |-> quota.account_id, timestamp |-> quota.timestamp,
     quota_limit |-> quota.quota_limit, quota_remaining |-> quota.quota_remaining]

\* the model_usage rows store_quota builds from a QuotaData
ModelUsageRows(quota) ==
    {[account_id |-> quota.account_id, timestamp |-> quota.timestamp,
      model_name |-> quota.model_breakdown[i]] : i \in 1..Len(quota.model_breakdown)}

\* an update_account_sync_time without its WHERE clause
update_every_sync_time(account_id, timestamp) ==
    [i \in 1..Len(accounts) |-> [accounts[i] EXCEPT !.last_synced = Some(timestamp)]]

\* Repository::update_account_sync_time
update_account_sync_time(account_id, timestamp) ==
    [i \in 1..Len(accounts) |->
        IF accounts[i].id = account_id
        THEN [accounts[i] EXCEPT !.last_synced = Some(timestamp)]
        ELSE accounts[i]]

\* a fetch_account_quota that goes on to Ok when the snapshot insert fails
fetch_account_quota_unpersisted(account_id, fault, response) ==
    LET err == [result |-> "Err", quota |-> None, accounts |-> accounts,
                quota_snapshots |-> quota_snapshots, model_usage |-> model_usage,
                inserted_snapshot |-> FALSE, inserted_usage |-> 0]
        quota == [response EXCEPT !.account_id = account_id]
        inserted == fault # "insert_quota_snapshot"
    IN IF fault \in {"get_account", "decrypt", "provider"}
          \/ get_account(account_id) = None
       THEN err
       ELSE [err EXCEPT
               !.result = "Ok", !.quota = Some(quota),
               !.quota_snapshots = IF inserted THEN @ \cup {SnapshotRow(quota)} ELSE @,
               !.inserted_snapshot = inserted,
               !.model_usage = @ \cup ModelUsageRows(quota),
               !.inserted_usage = Len(quota.model_breakdown),
               !.accounts = update_account_sync_time(account_id, now)]

\* a fetch_account_quota that sets the sync time before it calls the provider
fetch_account_quota_syncs_first(account_id, fault, response) ==
    LET err == [result |-> "Err", quota |-> None, accounts |-> accounts,
                quota_snapshots |-> quota_snapshots, model_usage |-> model_usage,
                inserted_snapshot |-> FALSE, inserted_usage |-> 0]
        quota == [response EXCEPT !.account_id = account_id]
        with_snapshot == [err EXCEPT
                            !.quota_snapshots = quota_snapshots \cup {SnapshotRow(quota)},
                            !.inserted_snapshot = TRUE]
        with_usage == [with_snapshot EXCEPT
                            !.model_usage = model_usage \cup ModelUsageRows(quota),
                            !.inserted_usage = Len(quota.model_breakdown)]
    IN IF fault = "get_account" \/ get_account(account_id) = None THEN err
       ELSE IF Unwrap(get_account(account_id)).provider \notin RegisteredProviders THEN err
       ELSE IF fault \in {"decrypt", "provider", "insert_quota_snapshot"}
            THEN [err EXCEPT !.accounts = update_account_sync_time(account_id, now)]
       ELSE IF fault = "insert_model_usage" /\ quota.model_breakdown # <<>>
            THEN with_snapshot
       ELSE IF fault = "update_account_sync_time" THEN with_usage
       ELSE [with_usage EXCEPT
               !.result = "Ok", !.quota = Some(quota),
               !.accounts = update_account_sync_time(account_id, now)]

\* Aggregator::fetch_account_quota(account_id) when the store or the provider
\* fails at `fault` and the provider would answer `response`: the Result it
\* returns (quota = Some(q) for Ok(q)) and the store it leaves.
fetch_account_quota(account_id, fault, response) ==
    LET err == [result |-> "Err", quota |-> None, accounts |-> accounts,
                quota_snapshots |-> quota_snapshots, model_usage |-> model_usage,
                inserted_snapshot |-> FALSE, inserted_usage |-> 0]
        quota == [response EXCEPT !.account_id = account_id]
        with_snapshot == [err EXCEPT
                            !.quota_snapshots = quota_snapshots \cup {SnapshotRow(quota)},
                            !.inserted_snapshot = TRUE]
        with_usage == [with_snapshot EXCEPT
                            !.model_usage = model_usage \cup ModelUsageRows(quota),
                            !.inserted_usage = Len(quota.model_breakdown)]
    IN IF fault = "get_account" \/ get_account(account_id) = None THEN err
       ELSE IF Unwrap(get_account(account_id)).provider \notin RegisteredProviders THEN err
       ELSE IF fault \in {"decrypt", "provider", "insert_quota_snapshot"} THEN err
       ELSE IF fault = "insert_model_usage" /\ quota.model_breakdown # <<>>
            THEN with_snapshot
       ELSE IF fault = "update_account_sync_time" THEN with_usage
       ELSE [with_usage EXCEPT
               !.result = "Ok", !.quota = Some(quota),
               !.accounts = update_account_sync_time(account_id, now)]

\* the responses the provider of this account can give now (the provider of an
\* unknown account is never called: any response stands for "not asked")
ResponsesFor(account_id) ==
    IF get_account(account_id) # None
       /\ Unwrap(get_account(account_id)).provider \in RegisteredProviders
    THEN ProviderResponses(Unwrap(get_account(account_id)).provider, now)
    ELSE ProviderResponses("github", now)

----------------------------------------------------------------------------
(* Cache (services/cache.rs) *)

\* a set that keeps the value a key already has
CacheSetKeepsFirst(account_id, quota) ==
    IF IsSome(cache[account_id]) THEN cache
    ELSE [cache EXCEPT ![account_id] = Some(quota)]

\* Cache::set: HashMap::insert under the write guard
CacheSet(account_id, quota) == [cache EXCEPT ![account_id] = Some(quota)]

\* Cache::get: the clone of the value of the key, if any
CacheGet(account_id) == cache[account_id]

\* the orders in which the elements of a set can be listed
Orderings(S) ==
    {o \in [1..Cardinality(S) -> S] : \A i, j \in DOMAIN o : i # j => o[i] # o[j]}

\* Cache::get_all: the clones of the values, in one of the orders in which
\* HashMap::values can iterate
CacheGetAll ==
    {[i \in DOMAIN o |-> Unwrap(cache[o[i]])] :
        o \in Orderings({k \in AccountIds : IsSome(cache[k])})}

\* Cache::remove: HashMap::remove under the write guard
CacheRemove(account_id) == [cache EXCEPT ![account_id] = None]

\* Cache::clear
CacheClear == [k \in AccountIds |-> None]

\* the QuotaData the cache is given: Q1 and Q2 of the same account, told
\* apart by their timestamps
CacheValues ==
    {[account_id |-> "a1", timestamp |-> t, quota_limit |-> None,
      quota_remaining |-> None, model_breakdown |-> <<>>] : t \in {1, 2}}

\* cache_read before any read
NoRead == [op |-> "none"]

\* the tasks that call the Cache at the same time
CacheCallers == 1..MaxCallers

\* a caller that is in no Cache method
NoCall == [pc |-> "idle"]

\* the methods of the Cache that take the write guard, and those that take
\* the read guard
CacheWrites == {"set", "remove", "clear"}
CacheReads == {"get", "get_all"}

\* the calls a task can make: set (from the timer cycle, run_fetch_cycle,
\* refresh_account, add_account and its background fetch), remove (from
\* remove_account), clear, get (from get_quota) and get_all (from
\* get_all_quotas)
CacheCalls ==
    {[pc |-> "acquire", op |-> "set", key |-> k, value |-> v] :
        k \in AccountIds, v \in CacheValues}
    \cup {[pc |-> "acquire", op |-> op, key |-> k] :
            op \in {"remove", "get"}, k \in AccountIds}
    \cup {[pc |-> "acquire", op |-> op] : op \in {"clear", "get_all"}}

\* an entry of the map that a write has begun and not finished
Torn == [account_id |-> "", timestamp |-> -1, quota_limit |-> None,
         quota_remaining |-> None, model_breakdown |-> <<>>]

\* the caller holds a guard of Cache.data
Holding(c) == cache_call[c].pc \in {"locked", "writing"}

\* a lock whose write() waits for writers only
CanAcquireOverReaders(c) ==
    \A d \in CacheCallers \ {c} : ~(Holding(d) /\ cache_call[d].op \in CacheWrites)

\* tokio::sync::RwLock: write() is granted when no other guard is held,
\* read() when no write guard is held
CanAcquire(c) ==
    IF cache_call[c].op \in CacheWrites
    THEN \A d \in CacheCallers \ {c} : ~Holding(d)
    ELSE \A d \in CacheCallers \ {c} : ~(Holding(d) /\ cache_call[d].op \in CacheWrites)

\* a task enters a Cache method and awaits the guard
CacheEnter(c) ==
    /\ cache_call[c].pc = "idle"
    /\ \E call \in CacheCalls : cache_call' = [cache_call EXCEPT ![c] = call]
    /\ UNCHANGED <<sched_vars, cycle, cache, store_vars, notifier_vars, settings,
                   clock_vars, cache_log, cache_read, fetch,
                   service_vars,
                   race_vars>>

\* self.data.read().await or self.data.write().await returns the guard
CacheAcquire(c) ==
    /\ cache_call[c].pc = "acquire"
    /\ CanAcquire(c)
    /\ cache_call' = [cache_call EXCEPT ![c].pc = "locked"]
    /\ UNCHANGED <<sched_vars, cycle, cache, store_vars, notifier_vars, settings,
                   clock_vars, cache_log, cache_read, fetch,
                   service_vars,
                   race_vars>>

\* get and get_all clone from the map under the read guard and drop it
CacheReadStep(c) ==
    /\ cache_call[c].pc = "locked"
    /\ cache_call[c].op \in CacheReads
    /\ \E result \in IF cache_call[c].op = "get" THEN {CacheGet(cache_call[c].key)}
                      ELSE CacheGetAll :
          cache_read' = [op |-> cache_call[c].op, result |-> result]
    /\ cache_call' = [cache_call EXCEPT ![c] = NoCall]
    /\ UNCHANGED <<sched_vars, cycle, cache, store_vars, notifier_vars, settings,
                   clock_vars, cache_log, fetch, service_vars,
                   race_vars>>

\* insert, remove or clear has begun to change the HashMap: the entries it
\* works on are neither what they were nor what they will be
CacheWriteBegin(c) ==
    /\ cache_call[c].pc = "locked"
    /\ cache_call[c].op \in CacheWrites
    /\ cache' = [k \in AccountIds |->
                    CASE cache_call[c].op = "set" ->
                            IF k = cache_call[c].key THEN Some(Torn) ELSE cache[k]
                      [] cache_call[c].op = "remove" ->
                            IF k = cache_call[c].key /\ IsSome(cache[k])
                            THEN Some(Torn) ELSE cache[k]
                      [] OTHER -> IF IsSome(cache[k]) THEN Some(Torn) ELSE cache[k]]
    /\ cache_call' = [cache_call EXCEPT ![c].pc = "writing"]
    /\ UNCHANGED <<sched_vars, cycle, store_vars, notifier_vars, settings,
                   clock_vars, cache_log, cache_read, fetch,
                   service_vars,
                   race_vars>>

\* the change is complete and the write guard is dropped
CacheWriteEnd(c) ==
    /\ cache_call[c].pc = "writing"
    /\ cache' = CASE cache_call[c].op = "set" ->
                        CacheSet(cache_call[c].key, cache_call[c].value)
                  [] cache_call[c].op = "remove" -> CacheRemove(cache_call[c].key)
                  [] OTHER -> CacheClear
    /\ cache_call' = [cache_call EXCEPT ![c] = NoCall]
    /\ UNCHANGED <<sched_vars, cycle, store_vars, notifier_vars, settings,
                   clock_vars, cache_log, cache_read, fetch,
                   service_vars,
                   race_vars>>

\* the paths that fetch one account and cache the result
FetchPaths == {"run_fetch_cycle", "refresh_account"}

\* no fetch in flight, the provider not called yet: served counts the calls
\* of fetch_account_quota, newest is the QuotaData of the latest one that
\* returned Ok; a path that holds a quota is at "fetched" (check_and_notify
\* comes next) or at "to_cache" (Cache::set comes next), and `checked` tells
\* whether it has called check_and_notify for that quota
NoFetch == [served |-> 0, newest |-> None,
            path |-> [p \in FetchPaths |-> [pc |-> "idle"]],
            last |-> [called |-> FALSE]]

\* Cache::set called and completed
SetCall(account_id, quota) ==
    /\ Len(cache_log) < MaxCacheOps
    /\ cache' = CacheSet(account_id, quota)
    /\ cache_log' = Append(cache_log, [op |-> "set", key |-> account_id, value |-> quota])
    /\ UNCHANGED <<sched_vars, cycle, store_vars, notifier_vars, settings,
                   clock_vars, cache_read, cache_call, fetch,
                   service_vars,
                   race_vars>>

\* Cache::remove called and completed
RemoveCall(account_id) ==
    /\ Len(cache_log) < MaxCacheOps
    /\ cache' = CacheRemove(account_id)
    /\ cache_log' = Append(cache_log, [op |-> "remove", key |-> account_id])
    /\ UNCHANGED <<sched_vars, cycle, store_vars, notifier_vars, settings,
                   clock_vars, cache_read, cache_call, fetch,
                   service_vars,
                   race_vars>>

\* Cache::get called and completed; cache_read keeps what it returned and
\* the number of writes applied before it
GetCall(account_id) ==
    /\ cache_read' = [op |-> "get", key |-> account_id,
                      result |-> CacheGet(account_id), at |-> Len(cache_log)]
    /\ UNCHANGED <<sched_vars, cycle, cache, store_vars, notifier_vars, settings,
                   clock_vars, cache_log, cache_call, fetch,
                   service_vars,
                   race_vars>>

\* Cache::get_all called and completed
GetAllCall ==
    /\ \E result \in CacheGetAll :
          cache_read' = [op |-> "get_all", result |-> result, at |-> Len(cache_log)]
    /\ UNCHANGED <<sched_vars, cycle, cache, store_vars, notifier_vars, settings,
                   clock_vars, cache_log, cache_call, fetch,
                   service_vars,
                   race_vars>>

----------------------------------------------------------------------------
(* A fetch cycle: the body of Scheduler::run_fetch_cycle and of the loop *)

\* the runners of fetch cycles: the tasks, and the caller of refresh_now
Tasks == 1..MaxTasks
ManualRunner == MaxTasks + 1
Runners == Tasks \cup {ManualRunner}

\* the record of a cycle: where it is, the accounts still to fetch, the quotas
\* still to notify and cache, and what the cycle has done so far
\*   phase     "none":     the runner is not in a cycle
\*             "accounts": about to call get_all_accounts
\*             "fetch":    in fetch_all_quotas' loop over the accounts
\*             "notify":   about to call check_and_notify for Head(quotas)
\*             "set":      about to call Cache.set for Head(quotas)
\*             "done":     the for loop over the quotas has ended
\*   todo, quotas            fetch_all_quotas' iterator and its Vec, then the
\*                           caller's iterator over the returned Vec
\*   listed                  the ids get_all_accounts returned (Err: none)
\*   returned                the Vec fetch_all_quotas returned
\*   fetched_ok, fetched_err the accounts fetch_account_quota returned Ok / Err for
\*   persisted               the accounts whose snapshot this cycle inserted
\*   notified, notify_err    the accounts check_and_notify was called for / failed for
\*   cached                  the accounts Cache.set was called for
NoCycle ==
    [phase |-> "none", todo |-> <<>>, quotas |-> <<>>,
     listed |-> <<>>, list_err |-> FALSE, returned |-> <<>>,
     fetched_ok |-> {}, fetched_err |-> {}, persisted |-> {},
     notified |-> {}, notify_err |-> {}, cached |-> {}]

NewCycle == [NoCycle EXCEPT !.phase = "accounts"]

RECURSIVE Ids(_)
\* the ids of a sequence of account rows
Ids(rows) ==
    IF rows = <<>> THEN <<>> ELSE <<Head(rows).id>> \o Ids(Tail(rows))

\* where fetch_all_quotas goes when its loop has `todo` left to fetch and
\* `quotas` collected: on to the next account, or back to the caller's for loop
AfterFetch(c, todo, quotas) ==
    [c EXCEPT !.todo = todo, !.quotas = quotas,
              !.returned = IF todo = <<>> THEN quotas ELSE <<>>,
              !.phase = IF todo # <<>> THEN "fetch"
                        ELSE IF quotas # <<>> THEN "notify" ELSE "done"]

\* Aggregator::fetch_all_quotas, first step: get_all_accounts (Err: return vec![])
CycleGetAccounts(r) ==
    /\ cycle[r].phase = "accounts"
    /\ \E ok \in BOOLEAN :
          cycle' = [cycle EXCEPT
                      ![r] = AfterFetch([@ EXCEPT !.listed = IF ok THEN Ids(accounts) ELSE <<>>,
                                                  !.list_err = ~ok],
                                        IF ok THEN Ids(accounts) ELSE <<>>, <<>>)]
    /\ UNCHANGED <<cache, store_vars, notifier_vars, access_vars, service_vars,
                   race_vars>>

\* an iteration that gives up the rest of the batch at an Err
FetchAllAbortsOnErr(c, r) ==
    LET id == Head(c.todo)
        c1 == [c EXCEPT
                 !.fetched_ok = IF r.result = "Ok" THEN @ \cup {id} ELSE @,
                 !.fetched_err = IF r.result = "Err" THEN @ \cup {id} ELSE @,
                 !.persisted = IF r.inserted_snapshot THEN @ \cup {id} ELSE @]
    IN IF r.result = "Ok"
       THEN AfterFetch(c1, Tail(c.todo), Append(c.quotas, Unwrap(r.quota)))
       ELSE AfterFetch(c1, <<>>, c.quotas)

\* an iteration that pushes an empty QuotaData for an account whose fetch failed
FetchAllPushesOnErr(c, r) ==
    LET id == Head(c.todo)
        c1 == [c EXCEPT
                 !.fetched_ok = IF r.result = "Ok" THEN @ \cup {id} ELSE @,
                 !.fetched_err = IF r.result = "Err" THEN @ \cup {id} ELSE @,
                 !.persisted = IF r.inserted_snapshot THEN @ \cup {id} ELSE @]
        empty == [account_id |-> id, timestamp |-> now, quota_limit |-> None,
                  quota_remaining |-> None, model_breakdown |-> <<>>]
    IN AfterFetch(c1, Tail(c.todo),
                  Append(c.quotas, IF r.result = "Ok" THEN Unwrap(r.quota) ELSE empty))

\* what one iteration of fetch_all_quotas' loop makes of the cycle record, given
\* the outcome r of fetch_account_quota: Ok(quota) is pushed, Err is logged
FetchAllIteration(c, r) ==
    LET id == Head(c.todo)
        c1 == [c EXCEPT
                 !.fetched_ok = IF r.result = "Ok" THEN @ \cup {id} ELSE @,
                 !.fetched_err = IF r.result = "Err" THEN @ \cup {id} ELSE @,
                 !.persisted = IF r.inserted_snapshot THEN @ \cup {id} ELSE @]
    IN AfterFetch(c1, Tail(c.todo),
                  IF r.result = "Ok" THEN Append(c.quotas, Unwrap(r.quota))
                  ELSE c.quotas)

\* Aggregator::fetch_all_quotas, one iteration: fetch_account_quota for the
\* next account
CycleFetchAccount(r) ==
    /\ cycle[r].phase = "fetch"
    /\ \E fault \in AggregatorFaults, response \in ResponsesFor(Head(cycle[r].todo)) :
          \E res \in {fetch_account_quota(Head(cycle[r].todo), fault, response)} :
             /\ accounts' = res.accounts
             /\ quota_snapshots' = res.quota_snapshots
             /\ model_usage' = res.model_usage
             /\ cycle' = [cycle EXCEPT ![r] = FetchAllIteration(@, res)]
    /\ UNCHANGED <<cache, notifier_vars, access_vars, service_vars,
                   race_vars>>

\* a body that leaves the iteration when check_and_notify returns an Err
AfterNotifyErrSkips(c, result) ==
    LET c1 == [c EXCEPT !.notified = @ \cup {Head(c.quotas).account_id},
                        !.notify_err = IF result = "Err"
                                       THEN @ \cup {Head(c.quotas).account_id} ELSE @]
    IN IF result = "Err"
       THEN [c1 EXCEPT !.quotas = Tail(c.quotas),
                       !.phase = IF Tail(c.quotas) = <<>> THEN "done" ELSE "notify"]
       ELSE [c1 EXCEPT !.phase = "set"]

\* what the for loop's body makes of the cycle record once check_and_notify
\* has returned `result`: an Err is logged, and Cache.set comes next either way
AfterNotify(c, result) ==
    [c EXCEPT !.phase = "set",
              !.notified = @ \cup {Head(c.quotas).account_id},
              !.notify_err = IF result = "Err"
                             THEN @ \cup {Head(c.quotas).account_id} ELSE @]

\* the caller's for loop, first half: check_and_notify for the next quota
CycleNotify(r) ==
    /\ cycle[r].phase = "notify"
    /\ \E current_hour \in HourChoices, fault \in NotifierFaults, sink_ok \in BOOLEAN :
          \E res \in {check_and_notify(Head(cycle[r].quotas), current_hour, fault, sink_ok)} :
             /\ notification_state' = res.table
             /\ cycle' = [cycle EXCEPT ![r] = AfterNotify(@, res.result)]
    /\ UNCHANGED <<cache, store_vars, last_check, access_vars, service_vars,
                   race_vars>>

\* what the for loop's body makes of the cycle record once Cache.set is done
AfterCacheSet(c) ==
    [c EXCEPT !.quotas = Tail(c.quotas),
              !.cached = @ \cup {Head(c.quotas).account_id},
              !.phase = IF Tail(c.quotas) = <<>> THEN "done" ELSE "notify"]

\* the caller's for loop, second half: Cache.set for the quota just checked
CycleCacheSet(r) ==
    /\ cycle[r].phase = "set"
    /\ cache' = CacheSet(Head(cycle[r].quotas).account_id, Head(cycle[r].quotas))
    /\ cycle' = [cycle EXCEPT ![r] = AfterCacheSet(@)]
    /\ UNCHANGED <<store_vars, notifier_vars, access_vars, service_vars,
                   race_vars>>

\* one step of Scheduler::run_fetch_cycle (lines 96-104)
RunFetchCycleStep(r) ==
    \/ CycleGetAccounts(r)
    \/ CycleFetchAccount(r)
    \/ CycleNotify(r)
    \/ CycleCacheSet(r)

\* one step of the loop's cycle (lines 63-73), which repeats run_fetch_cycle's body
LoopBodyStep(r) ==
    \/ CycleGetAccounts(r)
    \/ CycleFetchAccount(r)
    \/ CycleNotify(r)
    \/ CycleCacheSet(r)

----------------------------------------------------------------------------
(* Scheduler (services/scheduler.rs) *)

\* a task's position
\*   "unused"   no start() has used this slot
\*   "initial"  in start(), inside run_fetch_cycle (line 44)
\*   "read"     the spawned loop, about to read the interval (line 55)
\*   "sleep"    in time::sleep (line 56)
\*   "check"    the sleep is over, about to read the running flag (line 58)
\*   "cycle"    in the scheduled cycle (lines 63-75)
\*   "exited"   the loop has taken the break (line 59)
NoTask == [pc |-> "unused", interval_secs |-> 0, elapsed |-> 0]

Free(t) == task[t].pc \in {"unused", "exited"}
LoopAlive(t) == task[t].pc \in {"read", "sleep", "check", "cycle"}

\* a start that does not look at the flag
StartUnguarded ==
    /\ \E t \in Tasks :
          /\ Free(t)
          /\ \A u \in Tasks : Free(u) => t <= u
          /\ task' = [task EXCEPT ![t] = [NoTask EXCEPT !.pc = "initial"]]
          /\ cycle' = [cycle EXCEPT ![t] = NewCycle]
    /\ running' = TRUE
    /\ last_start' = IF running THEN "already running" ELSE "started"
    /\ UNCHANGED <<interval_seconds, manual, cache, store_vars,
                   notifier_vars, settings, clock_vars,
                   access_vars, service_vars,
                   race_vars>>

\* Scheduler::start, up to its call of run_fetch_cycle: a no-op when the flag
\* is set; else the flag is set and the initial cycle begins
Start ==
    IF running
    THEN /\ last_start' = "already running"
         /\ UNCHANGED <<running, interval_seconds, task, manual, cycle, cache,
                        store_vars, notifier_vars, settings, clock_vars,
                   access_vars, service_vars,
                   race_vars>>
    ELSE /\ \E t \in Tasks :
              /\ Free(t)
              /\ \A u \in Tasks : Free(u) => t <= u
              /\ task' = [task EXCEPT ![t] = [NoTask EXCEPT !.pc = "initial"]]
              /\ cycle' = [cycle EXCEPT ![t] = NewCycle]
         /\ running' = TRUE
         /\ last_start' = "started"
         /\ UNCHANGED <<interval_seconds, manual, cache, store_vars,
                        notifier_vars, settings, clock_vars,
                   access_vars, service_vars,
                   race_vars>>

\* Scheduler::start, inside its call of run_fetch_cycle (line 44)
StartCycleStep(t) ==
    /\ task[t].pc = "initial"
    /\ RunFetchCycleStep(t)
    /\ UNCHANGED <<sched_vars, settings, clock_vars, access_vars, service_vars,
                   race_vars>>

\* Scheduler::start, after run_fetch_cycle: tokio::spawn of the loop (line 53),
\* and start returns
StartSpawn(t) ==
    /\ task[t].pc = "initial"
    /\ cycle[t].phase = "done"
    /\ task' = [task EXCEPT ![t].pc = "read"]
    /\ cycle' = [cycle EXCEPT ![t] = NoCycle]
    /\ UNCHANGED <<running, interval_seconds, manual, last_start, cache,
                   store_vars, notifier_vars, settings, clock_vars,
                   access_vars, service_vars,
                   race_vars>>

\* the loop, line 55: let interval_secs = *interval.read().await, and the
\* sleep for that long begins
LoopReadInterval(t) ==
    /\ task[t].pc = "read"
    /\ task' = [task EXCEPT ![t] = [pc |-> "sleep",
                                    interval_secs |-> interval_seconds,
                                    elapsed |-> 0]]
    /\ UNCHANGED <<running, interval_seconds, manual, last_start, cycle, cache,
                   store_vars, notifier_vars, settings, clock_vars,
                   access_vars, service_vars,
                   race_vars>>

Sleeping(t) == task[t].pc = "sleep"

\* one second passes for every sleeping loop; a sleep that is over ends before
\* more time passes
Tick ==
    /\ \E t \in Tasks : Sleeping(t)
    /\ \A t \in Tasks : Sleeping(t) => task[t].elapsed < task[t].interval_secs
    /\ task' = [t \in Tasks |->
                  IF Sleeping(t) THEN [task[t] EXCEPT !.elapsed = @ + 1]
                  ELSE task[t]]
    /\ UNCHANGED <<running, interval_seconds, manual, last_start, cycle, cache,
                   store_vars, notifier_vars, settings, clock_vars,
                   access_vars, service_vars,
                   race_vars>>

\* a loop whose cycle follows the sleep at once
LoopWakeSkipsCheck(t) ==
    /\ Sleeping(t)
    /\ task[t].elapsed >= task[t].interval_secs
    /\ task' = [task EXCEPT ![t].pc = "cycle"]
    /\ cycle' = [cycle EXCEPT ![t] = NewCycle]
    /\ UNCHANGED <<running, interval_seconds, manual, last_start, cache,
                   store_vars, notifier_vars, settings, clock_vars,
                   access_vars, service_vars,
                   race_vars>>

\* a sleep that ends when the shared interval has elapsed
LoopWakeRereadsInterval(t) ==
    /\ Sleeping(t)
    /\ task[t].elapsed >= interval_seconds
    /\ task' = [task EXCEPT ![t].pc = "check"]
    /\ UNCHANGED <<running, interval_seconds, manual, last_start, cycle, cache,
                   store_vars, notifier_vars, settings, clock_vars,
                   access_vars, service_vars,
                   race_vars>>

\* the loop, line 56: time::sleep(interval_secs) returns
LoopWake(t) ==
    /\ Sleeping(t)
    /\ task[t].elapsed >= task[t].interval_secs
    /\ task' = [task EXCEPT ![t].pc = "check"]
    /\ UNCHANGED <<running, interval_seconds, manual, last_start, cycle, cache,
                   store_vars, notifier_vars, settings, clock_vars,
                   access_vars, service_vars,
                   race_vars>>

\* a loop that never breaks
LoopCheckIgnoresFlag(t) ==
    /\ task[t].pc = "check"
    /\ task' = [task EXCEPT ![t].pc = "cycle"]
    /\ cycle' = [cycle EXCEPT ![t] = NewCycle]
    /\ UNCHANGED <<running, interval_seconds, manual, last_start, cache,
                   store_vars, notifier_vars, settings, clock_vars,
                   access_vars, service_vars,
                   race_vars>>

\* the loop, lines 58-60: break when the running flag is off, else the
\* scheduled cycle begins
LoopCheck(t) ==
    /\ task[t].pc = "check"
    /\ IF running
       THEN /\ task' = [task EXCEPT ![t].pc = "cycle"]
            /\ cycle' = [cycle EXCEPT ![t] = NewCycle]
       ELSE /\ task' = [task EXCEPT ![t] = [NoTask EXCEPT !.pc = "exited"]]
            /\ UNCHANGED cycle
    /\ UNCHANGED <<running, interval_seconds, manual, last_start, cache,
                   store_vars, notifier_vars, settings, clock_vars,
                   access_vars, service_vars,
                   race_vars>>

\* the loop, inside its cycle (lines 63-73)
LoopCycleStep(t) ==
    /\ task[t].pc = "cycle"
    /\ LoopBodyStep(t)
    /\ UNCHANGED <<sched_vars, settings, clock_vars, access_vars, service_vars,
                   race_vars>>

\* the loop, line 75: the cycle is complete and the loop iterates
LoopCycleEnd(t) ==
    /\ task[t].pc = "cycle"
    /\ cycle[t].phase = "done"
    /\ task' = [task EXCEPT ![t].pc = "read"]
    /\ cycle' = [cycle EXCEPT ![t] = NoCycle]
    /\ UNCHANGED <<running, interval_seconds, manual, last_start, cache,
                   store_vars, notifier_vars, settings, clock_vars,
                   access_vars, service_vars,
                   race_vars>>

\* Scheduler::stop
Stop ==
    /\ running' = FALSE
    /\ UNCHANGED <<interval_seconds, task, manual, last_start, cycle, cache,
                   store_vars, notifier_vars, settings, clock_vars,
                   access_vars, service_vars,
                   race_vars>>

\* Scheduler::set_interval(seconds)
SetInterval(seconds) ==
    /\ interval_seconds' = seconds
    /\ UNCHANGED <<running, task, manual, last_start, cycle, cache, store_vars,
                   notifier_vars, settings, clock_vars,
                   access_vars, service_vars,
                   race_vars>>

\* a run_fetch_cycle that restarts the sleep of the loop
ManualBeginResetsTimer ==
    /\ manual = "idle"
    /\ manual' = "cycle"
    /\ cycle' = [cycle EXCEPT ![ManualRunner] = NewCycle]
    /\ task' = [t \in Tasks |->
                  IF Sleeping(t) THEN [task[t] EXCEPT !.elapsed = 0] ELSE task[t]]
    /\ UNCHANGED <<running, interval_seconds, last_start, cache,
                   store_vars, notifier_vars, settings, clock_vars,
                   access_vars, service_vars,
                   race_vars>>

\* refresh_now: Scheduler::run_fetch_cycle is called
ManualBegin ==
    /\ manual = "idle"
    /\ manual' = "cycle"
    /\ cycle' = [cycle EXCEPT ![ManualRunner] = NewCycle]
    /\ UNCHANGED <<running, interval_seconds, task, last_start, cache,
                   store_vars, notifier_vars, settings, clock_vars,
                   access_vars, service_vars,
                   race_vars>>

\* refresh_now, inside run_fetch_cycle
ManualCycleStep ==
    /\ manual = "cycle"
    /\ RunFetchCycleStep(ManualRunner)
    /\ UNCHANGED <<sched_vars, settings, clock_vars, access_vars, service_vars,
                   race_vars>>

\* refresh_now: run_fetch_cycle returns
ManualEnd ==
    /\ manual = "cycle"
    /\ cycle[ManualRunner].phase = "done"
    /\ manual' = "idle"
    /\ cycle' = [cycle EXCEPT ![ManualRunner] = NoCycle]
    /\ UNCHANGED <<running, interval_seconds, task, last_start, cache,
                   store_vars, notifier_vars, settings, clock_vars,
                   access_vars, service_vars,
                   race_vars>>

----------------------------------------------------------------------------
(* The notifier called on its own, the settings command and the clock *)

\* the QuotaData check_and_notify is called with: usage of 96%, 95%, 90%, 75%
\* and 74.9% of a limit of 1000, and no limit
CheckedQuotas ==
    {[account_id |-> "a1", timestamp |-> now, quota_limit |-> Some(1000),
      quota_remaining |-> Some(remaining), model_breakdown |-> <<>>] :
        remaining \in {40, 50, 100, 250, 251}}
    \cup {[account_id |-> "a1", timestamp |-> now, quota_limit |-> None,
           quota_remaining |-> None, model_breakdown |-> <<>>]}

\* Notifier::check_and_notify(quota), called on its own with one of the given
\* quotas; last_check records the call: its argument, the stored row it found,
\* its time and what it did
DirectCheck(quotas) ==
    /\ \E current_hour \in HourChoices, quota \in quotas,
          fault \in NotifierFaults, sink_ok \in BOOLEAN :
          \E res \in {check_and_notify(quota, current_hour, fault, sink_ok)} :
             /\ notification_state' = res.table
             /\ last_check' = [called |-> TRUE, quota |-> quota,
                               prior |-> notification_state[quota.account_id],
                               time |-> now, result |-> res.result,
                               sent |-> res.sent, delivered |-> res.delivered,
                               read_state |-> res.read_state,
                               wrote_state |-> res.wrote_state,
                               fired_95 |-> {}]
    /\ UNCHANGED <<sched_vars, cycle, cache, store_vars, settings, clock_vars, access_vars,
                   service_vars,
                   race_vars>>

\* check_and_notify called for one of the checked quotas
NotifierCheck == DirectCheck(CheckedQuotas)

\* the QuotaData whose usage can or cannot be determined: the limit absent,
\* negative, zero or positive, the remaining quota absent, zero, below the
\* limit, equal to it or above it
UsageQuotas ==
    {[account_id |-> "a1", timestamp |-> now, quota_limit |-> limit,
      quota_remaining |-> remaining, model_breakdown |-> <<>>] :
        limit \in {None, Some(-1000), Some(0), Some(1000)},
        remaining \in {None, Some(0), Some(50), Some(1000), Some(1200)}}

\* the QuotaData checked at each hour: 96 and 74.9 percent used
QuietQuotas ==
    {[account_id |-> "a1", timestamp |-> now, quota_limit |-> Some(1000),
      quota_remaining |-> Some(remaining), model_breakdown |-> <<>>] :
        remaining \in {40, 251}}

\* the local hours of the checks: midnight, noon, and the hours at and next
\* to the ends of the stored windows
CheckedHours == {0, 5, 6, 7, 12, 21, 22, 23}

\* check_and_notify called at one of the checked hours, the notification sink
\* working; last_check records the hour too, and whether the store worked
QuietCheck ==
    /\ \E current_hour \in CheckedHours, quota \in QuietQuotas, fault \in NotifierFaults :
          \E res \in {check_and_notify(quota, current_hour, fault, TRUE)} :
             /\ notification_state' = res.table
             /\ last_check' = [called |-> TRUE, quota |-> quota,
                               prior |-> notification_state[quota.account_id],
                               time |-> now, hour |-> current_hour,
                               store_ok |-> fault = "none",
                               result |-> res.result,
                               sent |-> res.sent, delivered |-> res.delivered,
                               read_state |-> res.read_state,
                               wrote_state |-> res.wrote_state,
                               fired_95 |-> {}]
    /\ UNCHANGED <<sched_vars, cycle, cache, store_vars, settings, clock_vars, access_vars,
                   service_vars,
                   race_vars>>

\* check_and_notify called for one of the usage quotas
UsageCheck == DirectCheck(UsageQuotas)

\* the QuotaData of an account held at 95% or more: 95.0% or 96% of 1000
HeldQuotas ==
    {[account_id |-> "a1", timestamp |-> now, quota_limit |-> Some(1000),
      quota_remaining |-> Some(remaining), model_breakdown |-> <<>>] :
        remaining \in {40, 50}}

\* Notifier::check_and_notify(quota) for an account whose usage stays what it
\* was at the first call; last_check also records when the 95% notification
\* was last delivered, before this call (fired_95_before) and up to it
\* (fired_95)
HeldCheck ==
    /\ \E current_hour \in HourChoices, quota \in HeldQuotas,
          fault \in NotifierFaults, sink_ok \in BOOLEAN :
          /\ last_check.called =>
                quota.quota_remaining = last_check.quota.quota_remaining
          /\ \E res \in {check_and_notify(quota, current_hour, fault, sink_ok)} :
                /\ notification_state' = res.table
                /\ last_check' = [called |-> TRUE, quota |-> quota,
                                  prior |-> notification_state[quota.account_id],
                                  time |-> now, store_ok |-> fault = "none",
                                  result |-> res.result,
                                  sent |-> res.sent, delivered |-> res.delivered,
                                  read_state |-> res.read_state,
                                  wrote_state |-> res.wrote_state,
                                  fired_95_before |-> last_check.fired_95,
                                  fired_95 |-> IF 95 \in res.delivered THEN Some(now)
                                               ELSE last_check.fired_95]
    /\ UNCHANGED <<sched_vars, cycle, cache, store_vars, settings, clock_vars, access_vars,
                   service_vars,
                   race_vars>>

\* the (key, value) pairs the set_setting command is called with where the
\* notifier is checked
NotifierSettingInputs ==
    {<<"notifications_enabled", Str_true>>, <<"notifications_enabled", Str_false>>}

\* the set_setting command: Repository::set_setting (an Err returns at once),
\* then Scheduler::set_interval when the key is refresh_interval_seconds and
\* the value parses as u64
set_setting(key, value, store_ok) ==
    /\ settings' = IF store_ok THEN [settings EXCEPT ![key] = Some(value)]
                   ELSE settings
    /\ interval_seconds' =
          IF store_ok /\ key = "refresh_interval_seconds" /\ IsSome(ParseU64(value))
          THEN Unwrap(ParseU64(value))
          ELSE interval_seconds
    /\ UNCHANGED <<running, task, manual, last_start, cycle, cache, store_vars,
                   notifier_vars, clock_vars,
                   access_vars, service_vars,
                   race_vars>>

\* the seconds by which the clock advances between two calls
ClockSteps == {1, DaySeconds}

\* time passes
AdvanceClock(d) ==
    /\ clock_steps < MaxClockSteps
    /\ now' = now + d
    /\ clock_steps' = clock_steps + 1
    /\ UNCHANGED <<sched_vars, cycle, cache, store_vars, notifier_vars, settings,
                   access_vars, service_vars,
                   race_vars>>

----------------------------------------------------------------------------
(* Overlapping fetches of one account *)

\* the account both paths fetch
FetchedAccount == "a1"

\* refresh_account is invoked, or run_fetch_cycle reaches the account
FetchBegin(p) ==
    /\ fetch.path[p].pc = "idle"
    /\ fetch.served < MaxFetches
    /\ fetch' = [fetch EXCEPT !.path[p] = [pc |-> "fetching"]]
    /\ UNCHANGED <<sched_vars, cycle, cache, store_vars, notifier_vars, settings,
                   clock_vars, cache_log, cache_read, cache_call,
                   service_vars,
                   race_vars>>

\* Aggregator::fetch_account_quota: the provider answers with the usage as
\* of now; an Err ends the path (refresh_account returns it, fetch_all_quotas
\* logs it and returns no quota for the account)
FetchAccount(p) ==
    /\ fetch.path[p].pc = "fetching"
    /\ \E fault \in AggregatorFaults, response \in ResponsesFor(FetchedAccount) :
          \E res \in {fetch_account_quota(FetchedAccount, fault, response)} :
             /\ accounts' = res.accounts
             /\ quota_snapshots' = res.quota_snapshots
             /\ model_usage' = res.model_usage
             /\ fetch' = IF res.result = "Ok"
                          THEN [fetch EXCEPT
                                  !.served = @ + 1,
                                  !.newest = res.quota,
                                  !.path[p] = [pc |-> IF p = "run_fetch_cycle"
                                                      THEN "fetched" ELSE "to_cache",
                                               quota |-> Unwrap(res.quota),
                                               checked |-> FALSE]]
                          ELSE [fetch EXCEPT !.served = @ + 1,
                                             !.path[p] = [pc |-> "idle"]]
    /\ UNCHANGED <<sched_vars, cycle, cache, notifier_vars, settings, clock_vars,
                   cache_log, cache_read, cache_call, service_vars,
                   race_vars>>

\* run_fetch_cycle: check_and_notify for the quota, an Err logged
\* (refresh_account does not call it)
FetchNotify ==
    /\ fetch.path["run_fetch_cycle"].pc = "fetched"
    /\ \E current_hour \in HourChoices, fault \in NotifierFaults, sink_ok \in BOOLEAN :
          notification_state' =
              check_and_notify(fetch.path["run_fetch_cycle"].quota, current_hour,
                               fault, sink_ok).table
    /\ fetch' = [fetch EXCEPT !.path["run_fetch_cycle"].pc = "to_cache",
                              !.path["run_fetch_cycle"].checked = TRUE]
    /\ UNCHANGED <<sched_vars, cycle, cache, store_vars, last_check, settings,
                   clock_vars, cache_log, cache_read, cache_call,
                   service_vars,
                   race_vars>>

\* Cache::set with the quota the path fetched, which ends the path
FetchCacheSet(p) ==
    /\ fetch.path[p].pc = "to_cache"
    /\ cache' = CacheSet(fetch.path[p].quota.account_id, fetch.path[p].quota)
    /\ fetch' = [fetch EXCEPT !.path[p] = [pc |-> "idle"]]
    /\ UNCHANGED <<sched_vars, cycle, store_vars, notifier_vars, settings,
                   clock_vars, cache_log, cache_read, cache_call,
                   service_vars,
                   race_vars>>

----------------------------------------------------------------------------
(* fetch_account_quota called on its own *)

\* Aggregator::fetch_account_quota called for any id; fetch.last records the
\* call: its argument, the provider's answer, the store before it and what it
\* returned
DirectFetch ==
    /\ fetch.served < MaxDirectFetches
    /\ \E account_id \in AccountIds, fault \in AggregatorFaults :
          \E response \in ResponsesFor(account_id) :
             \E res \in {fetch_account_quota(account_id, fault, response)} :
                /\ accounts' = res.accounts
                /\ quota_snapshots' = res.quota_snapshots
                /\ model_usage' = res.model_usage
                /\ fetch' = [fetch EXCEPT !.served = @ + 1, !.last =
                                [called |-> TRUE, account_id |-> account_id,
                                 fault |-> fault, response |-> response,
                                 time |-> now, accounts |-> accounts,
                                 quota_snapshots |-> quota_snapshots,
                                 model_usage |-> model_usage,
                                 result |-> res.result, quota |-> res.quota,
                                 inserted_snapshot |-> res.inserted_snapshot,
                                 inserted_usage |-> res.inserted_usage]]
    /\ UNCHANGED <<sched_vars, cycle, cache, notifier_vars, settings, clock_vars,
                   cache_log, cache_read, cache_call, service_vars,
                   race_vars>>

----------------------------------------------------------------------------
(* add_account (api/commands.rs) *)

\* the provider identifiers add_account is called with: the registered ones
\* and one the registry does not know
RequestedProviders == RegisteredProviders \cup {"unlisted"}

\* the calls of add_account that can fail, in the order it makes them
AddFaults == {"none", "provider", "encrypt", "insert_account"}

\* a validate_credentials that stores the quota the provider answered
validate_credentials_persists(provider_id, fault, response) ==
    LET err == [result |-> "Err", quota |-> None, accounts |-> accounts,
                quota_snapshots |-> quota_snapshots, model_usage |-> model_usage]
    IN IF provider_id \notin RegisteredProviders THEN err
       ELSE IF fault = "provider" THEN err
       ELSE [err EXCEPT !.result = "Ok", !.quota = Some(response),
                        !.quota_snapshots =
                            quota_snapshots \cup {SnapshotRow(response)}]

\* Aggregator::validate_credentials(provider_id, credentials) when the provider
\* fails (fault = "provider") or would answer `response`: the Result it
\* returns and the store it leaves
validate_credentials(provider_id, fault, response) ==
    LET err == [result |-> "Err", quota |-> None, accounts |-> accounts,
                quota_snapshots |-> quota_snapshots, model_usage |-> model_usage]
    IN IF provider_id \notin RegisteredProviders THEN err
       ELSE IF fault = "provider" THEN err
       ELSE [err EXCEPT !.result = "Ok", !.quota = Some(response)]

\* an add_account that caches the quota as validate_credentials returned it
StampInitialKeeps(initial_quota, account_id) == initial_quota

\* add_account: quota_to_store, the initial quota with the id of the new
\* account
StampInitial(initial_quota, account_id) ==
    [initial_quota EXCEPT !.account_id = account_id]

\* Repository::insert_account
insert_account(account) == Append(accounts, account)

\* add_account is invoked: Uuid::new_v4() gives an id no account has
AddBegin ==
    /\ adding.pc = "idle"
    /\ \E id \in AccountIds, provider \in RequestedProviders, fault \in AddFaults :
          /\ get_account(id) = None
          /\ adding' = [pc |-> "validating", id |-> id, provider |-> provider,
                        fault |-> fault, initial_quota |-> None, bg |-> "none",
                        quota |-> None]
    /\ UNCHANGED <<sched_vars, cycle, cache, store_vars, notifier_vars, settings,
                   clock_vars, access_vars, cipher, keys, setting_call,
                   race_vars>>

\* add_account: validate_credentials; an Err is returned to the caller
AddValidate ==
    /\ adding.pc = "validating"
    /\ \E response \in ProviderResponses(
                           IF adding.provider \in RegisteredProviders
                           THEN adding.provider ELSE "github", now) :
          \E res \in {validate_credentials(adding.provider, adding.fault, response)} :
             /\ accounts' = res.accounts
             /\ quota_snapshots' = res.quota_snapshots
             /\ model_usage' = res.model_usage
             /\ adding' = IF res.result = "Ok"
                           THEN [adding EXCEPT !.pc = "inserting",
                                               !.initial_quota = res.quota]
                           ELSE [adding EXCEPT !.pc = "refused"]
    /\ UNCHANGED <<sched_vars, cycle, cache, notifier_vars, settings, clock_vars,
                   access_vars, cipher, keys, setting_call,
                   race_vars>>

\* add_account: the credentials are serialized and encrypted and the account
\* row is inserted; an Err of either is returned to the caller
AddInsert ==
    /\ adding.pc = "inserting"
    /\ IF adding.fault \in {"encrypt", "insert_account"}
       THEN /\ adding' = [adding EXCEPT !.pc = "failed"]
            /\ UNCHANGED accounts
       ELSE /\ accounts' = insert_account([id |-> adding.id,
                                           provider |-> adding.provider,
                                           last_synced |-> None])
            /\ adding' = [adding EXCEPT !.pc = "caching"]
    /\ UNCHANGED <<sched_vars, cycle, cache, quota_snapshots, model_usage,
                   notifier_vars, settings, clock_vars, access_vars, cipher, keys,
                   setting_call,
                   race_vars>>

\* add_account: Cache::set of the stamped initial quota, then the background
\* fetch is spawned and Ok is returned
AddCacheSet ==
    /\ adding.pc = "caching"
    /\ cache' = CacheSet(adding.id,
                         StampInitial(Unwrap(adding.initial_quota), adding.id))
    /\ adding' = [adding EXCEPT !.pc = "added", !.bg = "fetching"]
    /\ UNCHANGED <<sched_vars, cycle, store_vars, notifier_vars, settings,
                   clock_vars, access_vars, cipher, keys, setting_call,
                   race_vars>>

\* the spawned task: fetch_account_quota for the new account; an Err is logged
BackgroundFetch ==
    /\ adding.bg = "fetching"
    /\ \E fault \in AggregatorFaults, response \in ResponsesFor(adding.id) :
          \E res \in {fetch_account_quota(adding.id, fault, response)} :
             /\ accounts' = res.accounts
             /\ quota_snapshots' = res.quota_snapshots
             /\ model_usage' = res.model_usage
             /\ adding' = IF res.result = "Ok"
                           THEN [adding EXCEPT !.bg = "caching",
                                               !.quota = res.quota]
                           ELSE [adding EXCEPT !.bg = "logged"]
    /\ UNCHANGED <<sched_vars, cycle, cache, notifier_vars, settings, clock_vars,
                   access_vars, cipher, keys, setting_call,
                   race_vars>>

\* the spawned task: Cache::set of the fetched quota
BackgroundCacheSet ==
    /\ adding.bg = "caching"
    /\ cache' = CacheSet(Unwrap(adding.quota).account_id, Unwrap(adding.quota))
    /\ adding' = [adding EXCEPT !.bg = "cached"]
    /\ UNCHANGED <<sched_vars, cycle, store_vars, notifier_vars, settings,
                   clock_vars, access_vars, cipher, keys, setting_call,
                   race_vars>>

----------------------------------------------------------------------------
(* CryptoService (crypto.rs): AES-256-GCM with the all-zero nonce *)

\* the master keys a CryptoService can be built with
CipherKeys == {1, 2}

Bytes == 0..MaxByte
Utf8Bytes == 0..(MaxByte - 1)
ByteCount == MaxByte + 1

\* the UTF-8 bytes of the strings given to encrypt
Plaintexts == UNION {[1..n -> Utf8Bytes] : n \in 0..MaxPlainLen}

\* the key stream of the cipher: the nonce is fixed, so the stream depends on
\* the key and the position only
Keystream(key, i) == (key + i) % ByteCount

\* the counter-mode part of the cipher and its inverse
Masked(key, data) ==
    [i \in 1..Len(data) |-> (data[i] + Keystream(key, i)) % ByteCount]
Unmasked(key, body) ==
    [i \in 1..Len(body) |-> (body[i] + ByteCount - Keystream(key, i)) % ByteCount]

RECURSIVE Code(_)
\* a number that tells the byte strings of one length apart, and the byte
\* strings of the plaintext lengths apart
Code(body) ==
    IF body = <<>> THEN 0
    ELSE Code(SubSeq(body, 1, Len(body) - 1)) * ByteCount + body[Len(body)] + 1

\* more than the Code of any masked plaintext
CodeSpan == ByteCount ^ (MaxPlainLen + 1)

\* the authentication tag of a masked body under a key: TagLen values that no
\* other key and no other body of the same length give (an ideal MAC), none
\* of them a value of Bytes
Tag(key, body) ==
    [i \in 1..TagLen |->
        ByteCount + (key * CodeSpan + Code(body)) * TagLen + (i - 1)]

\* Aead::encrypt(nonce, plaintext): the masked bytes followed by their tag
AeadEncrypt(key, data) == Masked(key, data) \o Tag(key, Masked(key, data))

\* Aead::decrypt(nonce, ciphertext): Err for an input shorter than a tag or
\* whose tag is not that of its body, else the unmasked body
AeadDecrypt(key, encrypted_data) ==
    IF Len(encrypted_data) < TagLen THEN [result |-> "Err", bytes |-> <<>>]
    ELSE LET body == SubSeq(encrypted_data, 1, Len(encrypted_data) - TagLen)
             tag == SubSeq(encrypted_data, Len(encrypted_data) - TagLen + 1,
                           Len(encrypted_data))
         IN IF tag # Tag(key, body) THEN [result |-> "Err", bytes |-> <<>>]
            ELSE [result |-> "Ok", bytes |-> Unmasked(key, body)]

\* CryptoService::encrypt(data) of the service that holds `key`: Ok(ciphertext)
encrypt(key, data) ==
    [result |-> "Ok", ciphertext |-> Some(AeadEncrypt(key, data))]

\* String::from_utf8
from_utf8(bytes) ==
    IF \A i \in DOMAIN bytes : bytes[i] \in Utf8Bytes
    THEN [result |-> "Ok", plaintext |-> Some(bytes)]
    ELSE [result |-> "Err", error |-> "Encryption", plaintext |-> None]

\* a decrypt that returns whatever the bytes after the nonce unmask to
decrypt_unverified(key, encrypted_data) ==
    IF Len(encrypted_data) < TagLen
    THEN [result |-> "Err", error |-> "Encryption", plaintext |-> None]
    ELSE from_utf8(Unmasked(key, SubSeq(encrypted_data, 1,
                                        Len(encrypted_data) - TagLen)))

\* CryptoService::decrypt(encrypted_data) of the service that holds `key`:
\* Ok(plaintext), or Err(Encryption) when the cipher refuses the input or the
\* bytes are not UTF-8
decrypt(key, encrypted_data) ==
    LET plain == AeadDecrypt(key, encrypted_data)
    IN IF plain.result = "Err"
       THEN [result |-> "Err", error |-> "Encryption", plaintext |-> None]
       ELSE from_utf8(plain.bytes)

\* the values a byte of the ciphertext of `data` can be altered to: the
\* bytes, and the values found in the tags any key gives for `data`
AlteredValues(data) ==
    Bytes \cup {AeadEncrypt(k, data)[Len(data) + j] :
                   k \in CipherKeys, j \in 1..TagLen}

\* what is given to decrypt in place of the ciphertext of `data`: the
\* ciphertext itself, a copy with one byte altered, a proper prefix of it, or
\* a ciphertext produced under another key
DecryptInputs(kind, key, data) ==
    LET ct == AeadEncrypt(key, data)
    IN CASE kind = "intact" -> {ct}
         [] kind = "altered" ->
               {[ct EXCEPT ![i] = v] : i \in DOMAIN ct, v \in AlteredValues(data)} \ {ct}
         [] kind = "truncated" -> {SubSeq(ct, 1, n) : n \in 0..(Len(ct) - 1)}
         [] kind = "other_key" ->
               {AeadEncrypt(k, P) : k \in CipherKeys \ {key}, P \in Plaintexts}

DecryptKinds == {"intact", "altered", "truncated", "other_key"}

\* CryptoService::new with the master key it obtained
CipherNew ==
    /\ cipher.op = "none"
    /\ \E key \in CipherKeys :
          cipher' = [op |-> "new", key |-> key, data |-> <<>>, kind |-> "none",
                     input |-> <<>>, result |-> "none", output |-> None]
    /\ UNCHANGED <<sched_vars, cycle, cache, store_vars, notifier_vars, settings,
                   clock_vars, access_vars, adding, keys, setting_call,
                   race_vars>>

\* encrypt is called with a string
CipherEncrypt ==
    /\ cipher.op # "none"
    /\ \E data \in Plaintexts :
          \E res \in {encrypt(cipher.key, data)} :
             cipher' = [op |-> "encrypt", key |-> cipher.key, data |-> data,
                        kind |-> "none", input |-> <<>>, result |-> res.result,
                        output |-> res.ciphertext]
    /\ UNCHANGED <<sched_vars, cycle, cache, store_vars, notifier_vars, settings,
                   clock_vars, access_vars, adding, keys, setting_call,
                   race_vars>>

\* decrypt is called with the ciphertext just produced, or with what has
\* become of it
CipherDecrypt ==
    /\ cipher.op = "encrypt"
    /\ \E kind \in DecryptKinds :
          \E input \in DecryptInputs(kind, cipher.key, cipher.data) :
             \E res \in {decrypt(cipher.key, input)} :
                cipher' = [cipher EXCEPT !.op = "decrypt", !.kind = kind,
                                         !.input = input, !.result = res.result,
                                         !.output = res.plaintext]
    /\ UNCHANGED <<sched_vars, cycle, cache, store_vars, notifier_vars, settings,
                   clock_vars, access_vars, adding, keys, setting_call,
                   race_vars>>

----------------------------------------------------------------------------
(* The master key (crypto.rs, get_or_create_master_key) *)

\* the length of a key in bytes (32 in the source)
KeyLen == 2

\* the bytes of a key, and the keys OsRng can generate
KeyBytes == {0, 1}
MasterKeys == [1..KeyLen -> KeyBytes]

\* base64: the character of a byte, the byte of a character
B64Char(b) == IF b = 0 THEN "A" ELSE "B"
B64Byte(c) == IF c = "A" THEN 0 ELSE 1
B64Alphabet == {B64Char(b) : b \in KeyBytes}

\* general_purpose::STANDARD.encode
B64Encode(bytes) == [i \in 1..Len(bytes) |-> B64Char(bytes[i])]

\* general_purpose::STANDARD.decode: Err for a string with a character that
\* is not of the alphabet
B64Decode(str) ==
    IF \A i \in DOMAIN str : str[i] \in B64Alphabet
    THEN [result |-> "Ok", bytes |-> [i \in 1..Len(str) |-> B64Byte(str[i])]]
    ELSE [result |-> "Err", bytes |-> <<>>]

RECURSIVE TrimEnd(_)
\* str::trim, for the line feed a key file can end with
TrimEnd(str) ==
    IF str # <<>> /\ str[Len(str)] = "\n"
    THEN TrimEnd(SubSeq(str, 1, Len(str) - 1)) ELSE str

\* what the credential store or the key file can hold when the application
\* starts for the first time: nothing, a key, a key of another length, or a
\* string that is not base64
StoredStrings ==
    {B64Encode(k) : k \in MasterKeys} \cup {<<"A">>, <<"!">>}
KeyringContents == {None} \cup {Some(str) : str \in StoredStrings}
FileContents ==
    KeyringContents \cup {Some(B64Encode(k) \o <<"\n">>) : k \in MasterKeys}

\* what the calls of one start meet: whether the entry of the credential
\* store can be read and can be written, whether the data directory is known
\* and can be created, and whether the key file can be read and written
KeyEnvs ==
    [keyring_get_ok : BOOLEAN, keyring_set_ok : BOOLEAN,
     data_dir : {"ok", "none", "create_fails"},
     file_read_ok : BOOLEAN, file_write_ok : BOOLEAN]

\* CryptoService::get_or_create_master_key when the credential store holds
\* `keyring` and the key file `file`, the calls meet `env` and OsRng gives
\* `fresh`: the Result it returns and what the two backends hold after it
get_or_create_master_key(keyring, file, env, fresh) ==
    LET err == [result |-> "Err", error |-> "Encryption", key |-> None,
                keyring |-> keyring, file |-> file]
        held == IF env.keyring_get_ok /\ IsSome(keyring)
                THEN B64Decode(Unwrap(keyring))
                ELSE [result |-> "Err", bytes |-> <<>>]
        filed == IF IsSome(file) THEN B64Decode(TrimEnd(Unwrap(file)))
                 ELSE [result |-> "Err", bytes |-> <<>>]
        saved == IF env.keyring_set_ok THEN Some(B64Encode(fresh)) ELSE keyring
    IN IF held.result = "Ok" /\ Len(held.bytes) = KeyLen
       THEN [err EXCEPT !.result = "Ok", !.error = "", !.key = Some(held.bytes)]
       ELSE IF env.data_dir # "ok" THEN err
       ELSE IF IsSome(file) /\ ~env.file_read_ok THEN err
       ELSE IF IsSome(file) /\ filed.result = "Err" THEN err
       ELSE IF IsSome(file) /\ Len(filed.bytes) = KeyLen
            THEN [err EXCEPT !.result = "Ok", !.error = "", !.key = Some(filed.bytes)]
       ELSE IF ~env.file_write_ok THEN [err EXCEPT !.keyring = saved]
       ELSE [err EXCEPT !.result = "Ok", !.error = "", !.key = Some(fresh),
                        !.keyring = saved, !.file = Some(B64Encode(fresh))]

\* the machine the application is installed on: what its credential store
\* and its key file hold before the first start
KeyBackends ==
    /\ keys.pc = "unused"
    /\ \E keyring \in KeyringContents, file \in FileContents :
          keys' = [pc |-> "installed", starts |-> 0, keyring |-> keyring,
                   file |-> file, last |-> [result |-> "none"]]
    /\ UNCHANGED <<sched_vars, cycle, cache, store_vars, notifier_vars, settings,
                   clock_vars, access_vars, adding, cipher, setting_call,
                   race_vars>>

\* the application starts: CryptoService::new calls get_or_create_master_key
KeyStart ==
    /\ keys.pc \in {"installed", "started"}
    /\ keys.starts < MaxStarts
    /\ \E env \in KeyEnvs, fresh \in MasterKeys :
          \E res \in {get_or_create_master_key(keys.keyring, keys.file, env, fresh)} :
             keys' = [pc |-> "started", starts |-> keys.starts + 1,
                      keyring |-> res.keyring, file |-> res.file,
                      last |-> [result |-> res.result, key |-> res.key,
                                env |-> env, fresh |-> fresh,
                                keyring |-> keys.keyring, file |-> keys.file]]
    /\ UNCHANGED <<sched_vars, cycle, cache, store_vars, notifier_vars, settings,
                   clock_vars, access_vars, adding, cipher, setting_call,
                   race_vars>>

----------------------------------------------------------------------------
(* The set_setting command, step by step (api/commands.rs) *)

\* the (key, value) pairs the command is invoked with: two intervals, a
\* value that is no number, and a setting of the notifier
SettingCallInputs ==
    {<<"refresh_interval_seconds", <<"1">>>>,
     <<"refresh_interval_seconds", <<"2">>>>,
     <<"refresh_interval_seconds", <<"a">>>>,
     <<"notifications_enabled", Str_false>>}

SettingCalls == DOMAIN setting_call

\* set_setting is invoked: the runtime runs the command as a task of its own
SettingBegin ==
    /\ Len(setting_call) < MaxSettingCalls
    /\ \E input \in SettingCallInputs :
          setting_call' = Append(setting_call,
                                 [pc |-> "store", key |-> input[1], value |-> input[2]])
    /\ UNCHANGED <<sched_vars, cycle, cache, store_vars, notifier_vars, settings,
                   clock_vars, access_vars, adding, cipher, keys,
                   race_vars>>

\* set_setting: Repository::set_setting; an Err is returned to the caller,
\* and a key other than refresh_interval_seconds or a value that does not
\* parse as u64 ends the command with Ok
SettingStore(i) ==
    /\ setting_call[i].pc = "store"
    /\ \E store_ok \in BOOLEAN :
          /\ settings' = IF store_ok
                         THEN [settings EXCEPT ![setting_call[i].key] =
                                                   Some(setting_call[i].value)]
                         ELSE settings
          /\ setting_call' =
                [setting_call EXCEPT
                   ![i].pc = IF ~store_ok THEN "failed"
                             ELSE IF setting_call[i].key = "refresh_interval_seconds"
                                     /\ IsSome(ParseU64(setting_call[i].value))
                                  THEN "set_interval"
                                  ELSE "done"]
    /\ UNCHANGED <<sched_vars, cycle, cache, store_vars, notifier_vars,
                   clock_vars, access_vars, adding, cipher, keys,
                   race_vars>>

\* set_setting: Scheduler::set_interval with the parsed value, then Ok
SettingInterval(i) ==
    /\ setting_call[i].pc = "set_interval"
    /\ interval_seconds' = Unwrap(ParseU64(setting_call[i].value))
    /\ setting_call' = [setting_call EXCEPT ![i].pc = "done"]
    /\ UNCHANGED <<running, task, manual, last_start, cycle, cache, store_vars,
                   notifier_vars, settings, clock_vars, access_vars, adding,
                   cipher, keys,
                   race_vars>>

----------------------------------------------------------------------------
(* Specifications *)

\* no add_account call made
NoAdd == [pc |-> "idle", id |-> "", provider |-> "", fault |-> "none",
          initial_quota |-> None, bg |-> "none", quota |-> None]

\* no check_and_notify call in flight
NoNotifyCalls == <<>>

\* no remove_account call made
NoRemoval == [pc |-> "idle", id |-> "", returned |-> FALSE]

\* the locks: Scheduler.running, Scheduler.interval_seconds and Cache.data
Locks == {"running", "interval_seconds", "cache"}

\* the users of the locks: the callers of start, stop, set_interval and
\* run_fetch_cycle, and the loop that start spawns
LockUsers == {"start", "stop", "set_interval", "run_fetch_cycle", "loop"}

\* no guard held and nothing called; interval_secs is the loop's local,
\* seconds the argument of set_interval and quota what a cycle holds
NoLocking ==
    [guards |-> [l \in Locks |-> {}],
     pc |-> [u \in LockUsers |-> IF u = "loop" THEN "unused" ELSE "idle"],
     interval_secs |-> 0, seconds |-> 0,
     quota |-> [u \in LockUsers |-> None]]

\* no call of the CryptoService made
NoCipher == [op |-> "none"]

\* key setup not modelled: the backends are not looked at
NoKeys == [pc |-> "unused"]

\* no set_setting call in flight
NoSettingCalls == <<>>

\* the accounts table with two accounts
TwoAccounts ==
    <<[id |-> "a1", provider |-> "openai", last_synced |-> None],
      [id |-> "a2", provider |-> "github", last_synced |-> None]>>

\* the accounts table with one account
OneAccount ==
    <<[id |-> "a1", provider |-> "openai", last_synced |-> None]>>

\* the accounts tables fetch_account_quota is called over: one account, two
\* accounts, and two accounts of which one names a provider that the registry
\* of this build does not have
FetchedTables ==
    {<<[id |-> "a1", provider |-> "anthropic", last_synced |-> None]>>,
     <<[id |-> "a1", provider |-> "anthropic", last_synced |-> None],
       [id |-> "a2", provider |-> "github", last_synced |-> None]>>,
     <<[id |-> "a1", provider |-> "anthropic", last_synced |-> None],
       [id |-> "a2", provider |-> "unlisted", last_synced |-> None]>>}

\* no setting stored
NoSettings == [k \in SettingKeys |-> None]

\* the state after main() has built the services, over a store that holds the
\* given accounts and settings
InitWith(stored_accounts, stored_settings) ==
    /\ running = FALSE
    /\ interval_seconds = InitialInterval
    /\ task = [t \in Tasks |-> NoTask]
    /\ manual = "idle"
    /\ cycle = [r \in Runners |-> NoCycle]
    /\ cache = [a \in AccountIds |-> None]
    /\ accounts = stored_accounts
    /\ quota_snapshots = {}
    /\ model_usage = {}
    /\ notification_state = [a \in AccountIds |-> None]
    /\ settings = stored_settings
    /\ now = 0
    /\ clock_steps = 0
    /\ last_check = NoCheck
    /\ last_start = "never called"
    /\ cache_log = <<>>
    /\ cache_read = NoRead
    /\ cache_call = [c \in CacheCallers |-> NoCall]
    /\ fetch = NoFetch
    /\ adding = NoAdd
    /\ cipher = NoCipher
    /\ keys = NoKeys
    /\ setting_call = NoSettingCalls
    /\ notify_call = NoNotifyCalls
    /\ removing = NoRemoval
    /\ locking = NoLocking

\* Spec: the scheduler as the application drives it, over two accounts: main()
\* calls start, refresh_now calls run_fetch_cycle and set_setting calls
\* set_interval; stop is never called (it is #[allow(dead_code)])
Init == InitWith(TwoAccounts, NoSettings)

Next ==
    \/ Start
    \/ \E t \in Tasks : StartCycleStep(t)
    \/ \E t \in Tasks : StartSpawn(t)
    \/ \E t \in Tasks : LoopReadInterval(t)
    \/ Tick
    \/ \E t \in Tasks : LoopWake(t)
    \/ \E t \in Tasks : LoopCheck(t)
    \/ \E t \in Tasks : LoopCycleStep(t)
    \/ \E t \in Tasks : LoopCycleEnd(t)
    \/ \E seconds \in Intervals : SetInterval(seconds)
    \/ ManualBegin
    \/ ManualCycleStep
    \/ ManualEnd

Spec == Init /\ [][Next]_vars

\* SpecSched: the Scheduler's lifecycle over one account: start and stop may
\* be called at any time
InitSched == InitWith(OneAccount, NoSettings)

NextSched ==
    \/ Start
    \/ \E t \in Tasks : StartCycleStep(t)
    \/ \E t \in Tasks : StartSpawn(t)
    \/ \E t \in Tasks : LoopReadInterval(t)
    \/ Tick
    \/ \E t \in Tasks : LoopWake(t)
    \/ \E t \in Tasks : LoopCheck(t)
    \/ \E t \in Tasks : LoopCycleStep(t)
    \/ \E t \in Tasks : LoopCycleEnd(t)
    \/ Stop

SpecSched == InitSched /\ [][NextSched]_vars

\* FairSched: SpecSched where every task keeps taking its steps and time keeps
\* passing: the runtime polls a spawned task and the timer fires, and each call
\* to the store, the provider and the notifier returns
FairSched ==
    /\ SpecSched
    /\ \A t \in Tasks :
          /\ WF_vars(StartCycleStep(t))
          /\ WF_vars(StartSpawn(t))
          /\ WF_vars(LoopReadInterval(t))
          /\ WF_vars(LoopWake(t))
          /\ WF_vars(LoopCheck(t))
          /\ WF_vars(LoopCycleStep(t))
          /\ WF_vars(LoopCycleEnd(t))
    /\ WF_vars(Tick)

\* SpecNotifier: check_and_notify called on its own at any time, for any of
\* the checked quotas, while notifications are switched off and on and time
\* passes
InitNotifier == InitWith(OneAccount, NoSettings)

NextNotifier ==
    \/ NotifierCheck
    \/ \E input \in NotifierSettingInputs, store_ok \in BOOLEAN :
          set_setting(input[1], input[2], store_ok)
    \/ \E d \in ClockSteps : AdvanceClock(d)

SpecNotifier == InitNotifier /\ [][NextNotifier]_vars

\* SpecCache: the methods of the Cache called one after the other
InitCache == InitWith(OneAccount, NoSettings)

NextCache ==
    \/ \E account_id \in AccountIds, quota \in CacheValues : SetCall(account_id, quota)
    \/ \E account_id \in AccountIds : RemoveCall(account_id)
    \/ \E account_id \in AccountIds : GetCall(account_id)
    \/ GetAllCall

SpecCache == InitCache /\ [][NextCache]_vars

\* SpecCacheLock: tasks call the methods of the Cache at the same time, each
\* method in the steps the guard of Cache.data separates
InitCacheLock == InitWith(OneAccount, NoSettings)

NextCacheLock ==
    \E c \in CacheCallers :
        \/ CacheEnter(c)
        \/ CacheAcquire(c)
        \/ CacheReadStep(c)
        \/ CacheWriteBegin(c)
        \/ CacheWriteEnd(c)

SpecCacheLock == InitCacheLock /\ [][NextCacheLock]_vars

\* SpecOverlap: a fetch cycle of run_fetch_cycle and a refresh_account of the
\* same account, each started while the other may be under way, as time
\* passes
InitOverlap == InitWith(OneAccount, NoSettings)

NextOverlap ==
    \/ \E p \in FetchPaths : FetchBegin(p)
    \/ \E p \in FetchPaths : FetchAccount(p)
    \/ FetchNotify
    \/ \E p \in FetchPaths : FetchCacheSet(p)
    \/ \E d \in ClockSteps : AdvanceClock(d)

SpecOverlap == InitOverlap /\ [][NextOverlap]_vars

\* SpecAccounts: add_account for a new account, while run_fetch_cycle and
\* refresh_account fetch the stored one
InitAccounts == InitWith(OneAccount, NoSettings)

NextAccounts ==
    \/ AddBegin
    \/ AddValidate
    \/ AddInsert
    \/ AddCacheSet
    \/ BackgroundFetch
    \/ BackgroundCacheSet
    \/ \E p \in FetchPaths : FetchBegin(p)
    \/ \E p \in FetchPaths : FetchAccount(p)
    \/ FetchNotify
    \/ \E p \in FetchPaths : FetchCacheSet(p)

SpecAccounts == InitAccounts /\ [][NextAccounts]_vars

\* SpecHang: refresh_now over two accounts, one cycle after the other
InitHang == InitWith(TwoAccounts, NoSettings)

NextHang ==
    \/ ManualBegin
    \/ ManualCycleStep
    \/ ManualEnd

SpecHang == InitHang /\ [][NextHang]_vars

\* the account whose provider does not answer
HungAccount == "a1"

\* fetch_all_quotas is awaiting fetch_account_quota for the hung account
AwaitingHung ==
    /\ cycle[ManualRunner].phase = "fetch"
    /\ Head(cycle[ManualRunner].todo) = HungAccount

\* a step of run_fetch_cycle other than the return of the provider call made
\* for the hung account
ManualStepReturning == ~AwaitingHung /\ ManualCycleStep

\* FairHang: SpecHang where every call returns except the provider call for
\* the hung account: the providers build their client with
\* reqwest::Client::new(), which sets no timeout, so that the await of a
\* request the server never answers never completes
FairHang ==
    /\ SpecHang
    /\ WF_vars(ManualBegin)
    /\ WF_vars(ManualStepReturning)
    /\ WF_vars(ManualEnd)

\* SpecCipher: a CryptoService is built and encrypts strings, and decrypts
\* what comes back for their ciphertexts
InitCipher == InitWith(OneAccount, NoSettings)

NextCipher ==
    \/ CipherNew
    \/ CipherEncrypt
    \/ CipherDecrypt

SpecCipher == InitCipher /\ [][NextCipher]_vars

\* SpecKeys: the application is started on machines whose credential store
\* and key file hold a key, something else or nothing, and whose calls fail
\* or succeed
InitKeys == InitWith(OneAccount, NoSettings)

NextKeys ==
    \/ KeyBackends
    \/ KeyStart

SpecKeys == InitKeys /\ [][NextKeys]_vars

\* SpecSettings: set_setting commands that overlap
InitSettings == InitWith(OneAccount, NoSettings)

NextSettings ==
    \/ SettingBegin
    \/ \E i \in SettingCalls : SettingStore(i)
    \/ \E i \in SettingCalls : SettingInterval(i)

SpecSettings == InitSettings /\ [][NextSettings]_vars

\* SpecFetch: fetch_account_quota called on its own, for stored and unknown
\* accounts, as time passes
InitFetch == \E stored \in FetchedTables : InitWith(stored, NoSettings)

NextFetch ==
    \/ DirectFetch
    \/ \E d \in ClockSteps : AdvanceClock(d)

SpecFetch == InitFetch /\ [][NextFetch]_vars

\* SpecUsage: check_and_notify called on its own for quotas with and without
\* a usage percentage, while time passes
InitUsage == InitWith(OneAccount, NoSettings)

NextUsage ==
    \/ UsageCheck
    \/ \E d \in ClockSteps : AdvanceClock(d)

SpecUsage == InitUsage /\ [][NextUsage]_vars

\* the stored values of quiet_hours_start and quiet_hours_end: absent, empty,
\* an hour of the day, no number, or a number that is no hour of the day
QuietHoursValues ==
    {None, Some(Str_empty), Some(Str_ab_00), Some(Str_25_00)}
        \cup {Some(HourText(h)) : h \in {6, 22}}

\* the stored values of notifications_enabled
EnabledValues == {None, Some(Str_true), Some(Str_false)}

\* the settings table the notifier starts over
QuietSettings ==
    {[k \in SettingKeys |->
        CASE k = "notifications_enabled" -> enabled
          [] k = "quiet_hours_start" -> start
          [] k = "quiet_hours_end" -> end
          [] OTHER -> None] :
        enabled \in EnabledValues, start \in QuietHoursValues,
        end \in QuietHoursValues}

\* SpecQuiet: check_and_notify called at the checked hours over each stored
\* quiet-hours window and notifications_enabled value
InitQuiet == \E stored \in QuietSettings : InitWith(OneAccount, stored)

NextQuiet == QuietCheck

SpecQuiet == InitQuiet /\ [][NextQuiet]_vars

\* SpecDebounce: check_and_notify called again and again for one account whose
\* usage stays at 95% or more, while time passes
InitDebounce == InitWith(OneAccount, NoSettings)

NextDebounce ==
    \/ HeldCheck
    \/ \E d \in ClockSteps : AdvanceClock(d)

SpecDebounce == InitDebounce /\ [][NextDebounce]_vars

----------------------------------------------------------------------------
(* Properties *)

\* the elements of a sequence
Range(seq) == {seq[i] : i \in 1..Len(seq)}

\* the account ids of a sequence of QuotaData
QuotaIds(quotas) == {quotas[i].account_id : i \in 1..Len(quotas)}

\* the phases of a cycle in which fetch_all_quotas has returned
Returned == {"notify", "set", "done"}

\* C1: per-account failure isolation.  When a cycle has ended, every account
\* that get_all_accounts listed has been fetched (a failure did not abort the
\* batch), and for every account A whose fetch failed and every other account
\* B whose fetch succeeded in this cycle, B's snapshot was inserted and is in
\* the store, B's quota is in the returned list and B's cache entry is set.
C1_FailureIsolation ==
    \A r \in Runners :
        cycle[r].phase = "done" =>
            /\ cycle[r].fetched_ok \cup cycle[r].fetched_err = Range(cycle[r].listed)
            /\ \A A \in cycle[r].fetched_err, B \in cycle[r].fetched_ok :
                  A # B =>
                    /\ B \in cycle[r].persisted
                    /\ \E row \in quota_snapshots : row.account_id = B
                    /\ B \in QuotaIds(cycle[r].returned)
                    /\ B \in cycle[r].cached
                    /\ IsSome(cache[B])
                    /\ Unwrap(cache[B]).account_id = B

\* C1 witness: a cycle has ended in which a1 failed and a2, fetched after it,
\* succeeded and was cached
C1_Witness ==
    \E r \in Runners :
        /\ cycle[r].phase = "done"
        /\ "a1" \in cycle[r].fetched_err
        /\ "a2" \in cycle[r].fetched_ok
        /\ "a2" \in cycle[r].cached

\* C2: fetch_all_quotas returns exactly the successes.  Once it has returned,
\* the list holds one QuotaData for each account whose fetch_account_quota
\* returned Ok in this call and none for an account whose fetch returned Err;
\* it is empty when get_all_accounts failed.  (It has no Err outcome: every
\* call ends in one of the phases after the return.)
C2_ReturnsExactlySuccesses ==
    \A r \in Runners :
        cycle[r].phase \in Returned =>
            /\ QuotaIds(cycle[r].returned) = cycle[r].fetched_ok
            /\ Len(cycle[r].returned) = Cardinality(cycle[r].fetched_ok)
            /\ QuotaIds(cycle[r].returned) \cap cycle[r].fetched_err = {}
            /\ cycle[r].list_err => cycle[r].returned = <<>>

\* C2 witness: fetch_all_quotas has returned after one fetch failed and one
\* succeeded
C2_Witness ==
    \E r \in Runners :
        /\ cycle[r].phase \in Returned
        /\ cycle[r].fetched_err # {}
        /\ cycle[r].fetched_ok # {}

\* C3: persistence comes first.  In every cycle, an account for which
\* check_and_notify or Cache.set was called had its snapshot inserted earlier
\* in the same cycle, and every quota the cycle holds for notification and
\* caching has its snapshot row in the store.
C3_PersistBeforeNotifyAndCache ==
    \A r \in Runners :
        /\ cycle[r].notified \cup cycle[r].cached \subseteq cycle[r].persisted
        /\ \A i \in 1..Len(cycle[r].quotas) :
              /\ cycle[r].quotas[i].account_id \in cycle[r].persisted
              /\ SnapshotRow(cycle[r].quotas[i]) \in quota_snapshots

\* C3 witness: a cycle has notified and cached an account
C3_Witness ==
    \E r \in Runners :
        /\ cycle[r].notified # {}
        /\ cycle[r].cached # {}

\* C4: check_and_notify first, Cache.set second, also after a notifier error.
\* In every cycle, Cache.set is called only for accounts check_and_notify was
\* called for; the quota about to be notified has been neither notified nor
\* cached; whenever the loop is between two quotas or has ended, every
\* notified account is cached, those whose check returned Err included; and
\* at the end every returned quota has been cached.
C4_NotifyThenCache ==
    \A r \in Runners :
        /\ cycle[r].cached \subseteq cycle[r].notified
        /\ cycle[r].notify_err \subseteq cycle[r].notified
        /\ cycle[r].phase = "notify" =>
              Head(cycle[r].quotas).account_id \notin cycle[r].notified
        /\ cycle[r].phase = "set" =>
              /\ Head(cycle[r].quotas).account_id \in cycle[r].notified
              /\ Head(cycle[r].quotas).account_id \notin cycle[r].cached
        /\ cycle[r].phase \in {"notify", "done"} =>
              cycle[r].notified = cycle[r].cached
        /\ cycle[r].phase = "done" =>
              cycle[r].cached = QuotaIds(cycle[r].returned)

\* C4 witness: a cycle has ended in which check_and_notify returned Err for
\* an account, and that account was cached
C4_Witness ==
    \E r \in Runners :
        /\ cycle[r].phase = "done"
        /\ cycle[r].notify_err # {}
        /\ cycle[r].notify_err \subseteq cycle[r].cached

\* the tasks that start() has created and that have not ended
Created == {t \in Tasks : task[t].pc # "unused"}

\* the background loops that are active
ActiveLoops == {t \in Tasks : LoopAlive(t)}

\* C5: start is idempotent.  With no stop, a start() call that finds the
\* scheduler running changes nothing: it begins no fetch cycle and spawns no
\* loop; so however many start() calls are made, one after the other or
\* while an earlier one is still in its initial cycle, there is exactly one
\* task, it never ends, and once its initial cycle is over it is the one
\* active loop.
C5_StartIdempotent ==
    /\ [](Cardinality(Created) = IF running THEN 1 ELSE 0)
    /\ [](Cardinality(ActiveLoops) <= 1)
    /\ []((running /\ \A t \in Tasks : task[t].pc # "initial")
            => Cardinality(ActiveLoops) = 1)
    /\ [][(running /\ last_start' = "already running" /\ last_start # last_start')
            => /\ task' = task
               /\ cycle' = cycle
               /\ running' = running
               /\ interval_seconds' = interval_seconds
               /\ cache' = cache
               /\ store_vars' = store_vars]_vars

\* C5 witness: a second start() has returned "already running" and one loop
\* is active
C5_Witness ==
    /\ last_start = "already running"
    /\ Cardinality(ActiveLoops) = 1
    /\ Cardinality(Created) = 1

\* C6: the lifecycle and the order of the loop.  The scheduler is created
\* stopped; the flag goes up only in a start() that begins the initial cycle
\* and goes down only in stop(), which touches no task.  A task begins with
\* one fetch cycle, completed before the loop is entered; the loop reads the
\* interval, sleeps for the value read, then checks the flag, and a
\* scheduled cycle begins only from that check, with the flag up; a cycle
\* is begun nowhere else.
C6_Lifecycle ==
    /\ ~running
    /\ [][
           /\ ((~running /\ running') =>
                (\E s \in Tasks : task[s].pc # "initial" /\ task'[s].pc = "initial"))
           /\ ((running /\ ~running') => (task' = task /\ cycle' = cycle))
           /\ \A t \in Tasks :
                 /\ task'[t].pc # task[t].pc =>
                       CASE task'[t].pc = "initial" ->
                              /\ Free(t) /\ ~running /\ running'
                              /\ cycle'[t] = NewCycle
                         [] task'[t].pc = "read" ->
                              /\ task[t].pc \in {"initial", "cycle"}
                              /\ cycle[t].phase = "done"
                         [] task'[t].pc = "sleep" ->
                              /\ task[t].pc = "read"
                              /\ task'[t].interval_secs = interval_seconds
                              /\ task'[t].elapsed = 0
                         [] task'[t].pc = "check" ->
                              /\ task[t].pc = "sleep"
                              /\ task[t].elapsed = task[t].interval_secs
                         [] task'[t].pc = "cycle" ->
                              /\ task[t].pc = "check" /\ running
                              /\ cycle'[t] = NewCycle
                         [] task'[t].pc = "exited" ->
                              task[t].pc = "check" /\ ~running
                         [] OTHER -> FALSE
                 /\ (cycle'[t].phase = "accounts" /\ cycle[t].phase # "accounts")
                       => task'[t].pc # task[t].pc
                 /\ (Sleeping(t) /\ task'[t].pc = "sleep") =>
                       /\ task'[t].interval_secs = task[t].interval_secs
                       /\ task'[t].elapsed \in {task[t].elapsed, task[t].elapsed + 1}
          ]_vars

\* C6 witness: a loop that slept for its interval and found the flag up has
\* completed a scheduled cycle, and stop() has been called since
C6_Witness ==
    \E t \in Tasks :
        /\ task[t].pc = "cycle"
        /\ cycle[t].phase = "done"
        /\ task[t].elapsed = task[t].interval_secs
        /\ ~running

C8_IntervalAtNextSleep ==
    /\ [](interval_seconds \in Intervals \cup {InitialInterval})
    /\ [][
           /\ ((interval_seconds' # interval_seconds) =>
                (running' = running /\ task' = task /\ cycle' = cycle))
           /\ \A t \in Tasks :
                 /\ (Sleeping(t) /\ task'[t].pc = "sleep") =>
                       /\ task'[t].interval_secs = task[t].interval_secs
                       /\ task'[t].elapsed \in {task[t].elapsed, task[t].elapsed + 1}
                 /\ (Sleeping(t) /\ task'[t].pc # "sleep") =>
                       /\ task'[t].pc = "check"
                       /\ task[t].elapsed = task[t].interval_secs
                 /\ (~Sleeping(t) /\ task'[t].pc = "sleep") =>
                       /\ task'[t].interval_secs = interval_seconds
                       /\ task'[t].elapsed = 0
                       /\ interval_seconds' = interval_seconds
          ]_vars

\* C8 witness: set_interval was called during a sleep, which has run to the
\* length read when it began, not to the new one
C8_Witness ==
    \E t \in Tasks :
        /\ Sleeping(t)
        /\ task[t].interval_secs # interval_seconds
        /\ task[t].elapsed = task[t].interval_secs
        /\ task[t].elapsed > interval_seconds

\* C9: run_fetch_cycle leaves the loop alone.  Every step of a manual
\* run_fetch_cycle (its beginning, each step of its cycle, its return)
\* leaves the flag, the interval, every task (its position, the length of
\* its sleep and the time slept) and every task's cycle as they were; and
\* while it runs, time still passes for a sleeping loop and a sleep that is
\* over still ends.
C9_ManualCycleLeavesLoopAlone ==
    /\ [][(manual' # manual \/ cycle'[ManualRunner] # cycle[ManualRunner]) =>
             /\ running' = running
             /\ interval_seconds' = interval_seconds
             /\ task' = task
             /\ \A t \in Tasks : cycle'[t] = cycle[t]]_vars
    /\ [](manual = "cycle" =>
             \A t \in Tasks :
                 Sleeping(t) =>
                    IF \A u \in Tasks : Sleeping(u) => task[u].elapsed < task[u].interval_secs
                    THEN ENABLED Tick
                    ELSE \E u \in Tasks : ENABLED LoopWake(u))

\* C9 witness: a manual cycle is under way while the loop is in the middle
\* of a sleep
C9_Witness ==
    /\ manual = "cycle"
    /\ cycle[ManualRunner].phase \in {"fetch", "notify", "set"}
    /\ \E t \in Tasks :
          /\ Sleeping(t)
          /\ 0 < task[t].elapsed
          /\ task[t].elapsed < task[t].interval_secs

\* the notification tiers
Tiers == {75, 90, 95}

\* the last-notified timestamp of a tier in a NotificationState
TierStamp(state, tier) ==
    CASE tier = 95 -> state.last_95_percent_notified
      [] tier = 90 -> state.last_90_percent_notified
      [] tier = 75 -> state.last_75_percent_notified

\* a stored row, or the row without timestamps when there is none
RowOf(stored, account_id) ==
    IF IsSome(stored) THEN Unwrap(stored) ELSE DefaultState(account_id)

\* the tiers that a usage of (limit - remaining) / limit meets and whose
\* timestamp in `row` is absent or more than 24 hours before `time`
Qualifying(quota, row, time) ==
    IF IsSome(quota.quota_limit) /\ IsSome(quota.quota_remaining)
       /\ Unwrap(quota.quota_limit) > 0
    THEN {T \in Tiers :
            /\ (Unwrap(quota.quota_limit) - Unwrap(quota.quota_remaining)) * 100
                  >= T * Unwrap(quota.quota_limit)
            /\ \/ TierStamp(row, T) = None
               \/ time - Unwrap(TierStamp(row, T)) > DaySeconds}
    ELSE {}

\* C10: tier priority.  Every check_and_notify call sends at most one
\* notification and changes at most one tier's timestamp; what it sends is
\* the highest tier that the percentage meets and whose timestamp is absent
\* or older than 24 hours (and it sends that one whenever it gets to the
\* tiers); the timestamp it changes is that tier's, set to the time of the
\* check.  With no stored state and a usage of 95% or more, a call that
\* completes sends the 95% tier alone and stores a row with last_95 at the
\* time of the check and no 90% and no 75% timestamp.
C10_TierPriority ==
    last_check.called =>
        LET c == last_check
            id == c.quota.account_id
            before == RowOf(c.prior, id)
            after == RowOf(notification_state[id], id)
            qualifying == Qualifying(c.quota, before, c.time)
            highest == {T \in qualifying : \A U \in qualifying : U <= T}
            changed == {T \in Tiers : TierStamp(after, T) # TierStamp(before, T)}
        IN /\ Cardinality(c.sent) <= 1
           /\ Cardinality(changed) <= 1
           /\ c.sent \subseteq highest
           /\ c.read_state => c.sent = highest
           /\ changed \subseteq c.sent
           /\ c.wrote_state => changed = c.sent
           /\ \A T \in changed : TierStamp(after, T) = Some(c.time)
           /\ (c.prior = None /\ c.wrote_state /\ 95 \in qualifying) =>
                 /\ c.sent = {95}
                 /\ notification_state[id] =
                       Some([DefaultState(id) EXCEPT
                               !.last_95_percent_notified = Some(c.time)])

\* C10 witness: with no stored state, a check of limit 1000 and remaining 50
\* has sent the 95% tier and stored last_95 alone
C10_Witness ==
    /\ last_check.called
    /\ last_check.prior = None
    /\ last_check.quota.quota_limit = Some(1000)
    /\ last_check.quota.quota_remaining = Some(50)
    /\ last_check.sent = {95}
    /\ notification_state["a1"] =
          Some([DefaultState("a1") EXCEPT
                  !.last_95_percent_notified = Some(last_check.time)])

\* C11: debounce.  For an account held at a fixed percentage of 95 or more,
\* two calls of check_and_notify that send the 95% notification are more
\* than 24 hours apart (so a call right after one that sent it does not
\* send it again).
C11_Debounce95 ==
    (/\ last_check.called
     /\ 95 \in last_check.delivered
     /\ IsSome(last_check.fired_95_before))
        => last_check.time - Unwrap(last_check.fired_95_before) > DaySeconds

\* the usage of a QuotaData can be determined: limit and remaining quota are
\* both present and the limit is positive
Determinable(quota) ==
    /\ IsSome(quota.quota_limit)
    /\ IsSome(quota.quota_remaining)
    /\ Unwrap(quota.quota_limit) > 0

\* C12: the usage percentage.  For a call of check_and_notify: when limit and
\* remaining quota are present and the limit is positive, the percentage is
\* (limit - remaining) / limit * 100; in every other case there is none and
\* the call does nothing: it sends no notification, does not read and does
\* not write the notification state, which stays as it was.
C12_UsagePercentage ==
    last_check.called =>
        LET quota == last_check.quota
            percentage == calculate_usage_percentage(quota)
        IN IF Determinable(quota)
           THEN /\ IsSome(percentage)
                /\ Unwrap(percentage).den > 0
                /\ Unwrap(percentage).num * Unwrap(quota.quota_limit)
                     = (Unwrap(quota.quota_limit) - Unwrap(quota.quota_remaining))
                       * 100 * Unwrap(percentage).den
           ELSE /\ percentage = None
                /\ last_check.sent = {}
                /\ last_check.delivered = {}
                /\ ~last_check.read_state
                /\ ~last_check.wrote_state
                /\ notification_state[quota.account_id] = last_check.prior

\* C12 witness: a call with a limit of 0 has returned Ok, past the settings
\* gate, over a stored state that an earlier call had written
C12_Witness ==
    /\ last_check.called
    /\ last_check.quota.quota_limit = Some(0)
    /\ IsSome(last_check.quota.quota_remaining)
    /\ last_check.result = "Ok"
    /\ IsSome(last_check.prior)

\* the last call of check_and_notify returned Ok with notifications enabled
ReachedQuietGate ==
    /\ last_check.called
    /\ last_check.result = "Ok"
    /\ settings["notifications_enabled"] \in {None, Some(Str_true)}

\* the hours of the day the stored windows are made of
WindowHours == {6, 22}

\* the last call of check_and_notify was suppressed: it returned Ok without
\* reading the notification state
Suppressed ==
    /\ last_check.result = "Ok"
    /\ ~last_check.read_state
    /\ last_check.sent = {}
    /\ ~last_check.wrote_state

\* the hour h lies in the window from s to e, which wraps past midnight when
\* s > e
InWindow(h, s, e) == IF s > e THEN h >= s \/ h < e ELSE s <= h /\ h < e

\* C13: quiet hours.  With start hour s and end hour e stored as "HH:00", a
\* check at local hour h is suppressed exactly when h >= s or h < e if s > e
\* (the window wraps past midnight), and exactly when s <= h < e if s < e:
\* is_quiet_hours answers so for every hour of the day, and a call of
\* check_and_notify that returns Ok with notifications enabled is suppressed
\* exactly at those hours.
C13_QuietHoursWindow ==
    \A s, e \in WindowHours :
        (/\ settings["quiet_hours_start"] = Some(HourText(s))
         /\ settings["quiet_hours_end"] = Some(HourText(e))
         /\ s # e)
            => /\ \A h \in Hours : is_quiet_hours(h) <=> InWindow(h, s, e)
               /\ ReachedQuietGate
                    => (Suppressed <=> InWindow(last_check.hour, s, e))

\* C13 witness: over the window 22:00 to 06:00 a check at hour 5 has been
\* suppressed
C13_Witness ==
    /\ ReachedQuietGate
    /\ settings["quiet_hours_start"] = Some(HourText(22))
    /\ settings["quiet_hours_end"] = Some(HourText(6))
    /\ last_check.hour = 5
    /\ Suppressed

\* a stored quiet-hours value that denotes an hour of the day: present, not
\* empty, and a number from 0 to 23 before its first colon
DenotesHour(value) ==
    /\ IsSome(value)
    /\ Unwrap(value) # <<>>
    /\ IsSome(ParseU32(FirstSegment(Unwrap(value))))
    /\ Unwrap(ParseU32(FirstSegment(Unwrap(value)))) \in Hours

\* the stored quiet-hours window is malformed or absent
MalformedWindow ==
    \/ ~DenotesHour(settings["quiet_hours_start"])
    \/ ~DenotesHour(settings["quiet_hours_end"])

\* C14: a malformed or absent quiet-hours window is never quiet.  When the
\* start or the end setting is missing, empty or denotes no hour of the day,
\* is_quiet_hours is false at the hour of the check and a call of
\* check_and_notify that returns Ok with notifications enabled is not
\* suppressed.
C14_MalformedWindowNeverQuiet ==
    (last_check.called /\ MalformedWindow)
        => /\ ~is_quiet_hours(last_check.hour)
           /\ ReachedQuietGate => ~Suppressed

\* notifications are globally disabled: the setting is present and not "true"
Disabled ==
    /\ IsSome(settings["notifications_enabled"])
    /\ settings["notifications_enabled"] # Some(Str_true)

\* C15: the gate.  When notifications are globally disabled, or the local hour
\* of the check is inside the quiet hours, check_and_notify sends nothing and
\* leaves the notification state of the account as it was, whatever the usage;
\* it returns Ok unless the store failed.
C15_GateSkips ==
    (/\ last_check.called
     /\ Disabled \/ is_quiet_hours(last_check.hour))
        => /\ last_check.sent = {}
           /\ last_check.delivered = {}
           /\ ~last_check.wrote_state
           /\ notification_state[last_check.quota.account_id] = last_check.prior
           /\ last_check.store_ok => last_check.result = "Ok"

\* C15 witness: with notifications enabled, a check at 96 percent usage with
\* no tier notified before has returned Ok inside the quiet hours
C15_Witness ==
    /\ last_check.called
    /\ ~Disabled
    /\ is_quiet_hours(last_check.hour)
    /\ last_check.quota.quota_remaining = Some(40)
    /\ last_check.prior = None
    /\ last_check.store_ok
    /\ last_check.result = "Ok"

\* the last call of check_and_notify returned Ok past the enabled and quiet
\* hours gate, for a quota whose percentage can be determined
CheckedPastGate ==
    /\ last_check.called
    /\ last_check.result = "Ok"
    /\ ~Disabled
    /\ ~is_quiet_hours(last_check.hour)
    /\ Determinable(last_check.quota)

\* C16: the notification state is persisted whether or not a tier fired.
\* After a check that returns Ok past the gate with a percentage, the account
\* has a state row; if nothing fired the row holds the timestamps that were
\* stored before, all three absent if there was no row.
C16_StatePersisted ==
    CheckedPastGate =>
        LET account_id == last_check.quota.account_id
            before == IF IsSome(last_check.prior) THEN Unwrap(last_check.prior)
                      ELSE [account_id |-> account_id,
                            last_75_percent_notified |-> None,
                            last_90_percent_notified |-> None,
                            last_95_percent_notified |-> None]
        IN /\ last_check.wrote_state
           /\ IsSome(notification_state[account_id])
           /\ last_check.sent = {} => Unwrap(notification_state[account_id]) = before

\* C16 witness: the first check of the account, at 74.9 percent, fired nothing
\* and left a row with no timestamp
C16_Witness ==
    /\ CheckedPastGate
    /\ last_check.prior = None
    /\ last_check.sent = {}
    /\ IsSome(notification_state["a1"])
    /\ Unwrap(notification_state["a1"]).last_75_percent_notified = None
    /\ Unwrap(notification_state["a1"]).last_90_percent_notified = None
    /\ Unwrap(notification_state["a1"]).last_95_percent_notified = None

\* C17: a failure of notification delivery never fails check_and_notify.
\* Whatever the quota, the hour and the store do, the call returns the same
\* result, sends for the same tier and leaves the same notification state
\* when the sink reports an error as when it delivers; a call whose
\* notification was not delivered returns Ok and stores its state when the
\* store works.
C17_DeliveryFailureSwallowed ==
    /\ \A quota \in HeldQuotas, current_hour \in HourChoices, fault \in NotifierFaults :
          LET refused == check_and_notify(quota, current_hour, fault, FALSE)
              shown == check_and_notify(quota, current_hour, fault, TRUE)
          IN /\ refused.result = shown.result
             /\ refused.table = shown.table
             /\ refused.sent = shown.sent
    /\ (/\ last_check.called
        /\ last_check.store_ok
        /\ last_check.sent # last_check.delivered)
           => /\ last_check.result = "Ok"
              /\ last_check.wrote_state

\* C17 witness: the sink refused the 95 percent notification and the call
\* returned Ok with the tier stamped
C17_Witness ==
    /\ last_check.called
    /\ last_check.sent = {95}
    /\ last_check.delivered = {}
    /\ last_check.result = "Ok"
    /\ last_check.wrote_state
    /\ Unwrap(notification_state["a1"]).last_95_percent_notified = Some(last_check.time)

RECURSIVE LatestSet(_, _)
\* the value of the latest set of the key in the log that no remove of the
\* key follows, if any
LatestSet(log, account_id) ==
    IF log = <<>> THEN None
    ELSE LET last == log[Len(log)]
         IN IF last.op = "clear" THEN None
            ELSE IF last.key = account_id
            THEN IF last.op = "set" THEN Some(last.value) ELSE None
            ELSE LatestSet(SubSeq(log, 1, Len(log) - 1), account_id)

\* the keys set and not removed since
LiveKeys(log) == {k \in AccountIds : IsSome(LatestSet(log, k))}

\* C18: the cache is last-write-wins.  After any sequence of set and remove
\* calls, get(id) returns the value of the latest set(id, v) that no
\* remove(id) follows, absent if there is none, and get_all() returns one
\* value for each key set and not removed since, the latest set for it.
C18_LastWriteWins ==
    LET log == SubSeq(cache_log, 1, cache_read.at)
    IN /\ cache_read.op = "get"
            => cache_read.result = LatestSet(log, cache_read.key)
       /\ cache_read.op = "get_all"
            => /\ Len(cache_read.result) = Cardinality(LiveKeys(log))
               /\ \E o \in Orderings(LiveKeys(log)) :
                     cache_read.result = [i \in DOMAIN o |-> Unwrap(LatestSet(log, o[i]))]

\* C18 witness: after set(a1, Q1) and set(a1, Q2), get(a1) has returned Q2
C18_Witness ==
    /\ cache_read.op = "get"
    /\ cache_read.key = "a1"
    /\ cache_read.at = 2
    /\ cache_log[1].op = "set" /\ cache_log[1].key = "a1"
    /\ cache_log[2].op = "set" /\ cache_log[2].key = "a1"
    /\ cache_log[1].value # cache_log[2].value
    /\ cache_read.result = Some(cache_log[2].value)

\* the callers that hold the write guard, and those that hold a read guard
Writers == {c \in CacheCallers : Holding(c) /\ cache_call[c].op \in CacheWrites}
Readers == {c \in CacheCallers : Holding(c) /\ cache_call[c].op \in CacheReads}

\* C19: readers and writers of the cache.  A set, remove or clear holds the
\* cache alone, with no other writer and no reader; while a reader holds it
\* no entry of the map is partly written, and what get and get_all return
\* holds no partly written entry.
C19_ReadersWriters ==
    /\ Cardinality(Writers) <= 1
    /\ Writers # {} => Readers = {}
    /\ Readers # {} => \A k \in AccountIds : cache[k] # Some(Torn)
    /\ cache_read.op = "get" => cache_read.result # Some(Torn)
    /\ cache_read.op = "get_all"
          => \A i \in DOMAIN cache_read.result : cache_read.result[i] # Torn

\* C19 witness: two get_all calls hold the cache at the same time while a set
\* has filled it
C19_Witness ==
    /\ Cardinality(Readers) >= 2
    /\ \A c \in Readers : cache_call[c].op = "get_all"
    /\ \E k \in AccountIds : IsSome(cache[k])

\* C20: the cache entry of an account is its most recent QuotaData.  Once
\* every fetch of the account has completed, the cached value is the result
\* of the fetch that got its data from the provider last.
C20_CacheHoldsNewest ==
    (/\ \A p \in FetchPaths : fetch.path[p].pc = "idle"
     /\ IsSome(fetch.newest))
        => cache[FetchedAccount] = fetch.newest

\* the identifiers a provider leaves in the QuotaData it returns
UnfilledIds == {"", "google-account"}

\* the QuotaData on their way to the Notifier or the Cache, with the account
\* each was fetched for
InFlight ==
    {<<fetch.path[p].quota, FetchedAccount>> :
        p \in {q \in FetchPaths : fetch.path[q].pc \in {"fetched", "to_cache"}}}
    \cup {<<Unwrap(adding.quota), adding.id>> : x \in {y \in {1} : adding.pc # "idle" /\ IsSome(adding.quota)}}

\* C21: account-identifier stamping.  Every value in the cache under key k has
\* account_id = k; every snapshot and model-usage row has the id of a stored
\* account; every QuotaData handed to the Notifier or the Cache has the id of
\* the account it was fetched for; and none of them has an identifier as a
\* provider left it.
C21_AccountIdStamped ==
    /\ \A k \in AccountIds : IsSome(cache[k]) => Unwrap(cache[k]).account_id = k
    /\ \A row \in quota_snapshots \cup model_usage :
          /\ get_account(row.account_id) # None
          /\ row.account_id \notin UnfilledIds
    /\ \A pair \in InFlight :
          /\ pair[1].account_id = pair[2]
          /\ pair[1].account_id \notin UnfilledIds

\* C21 witness: an account of the google provider, whose QuotaData come with
\* "google-account", has been added, fetched in the background and cached
C21_Witness ==
    /\ adding.pc = "added"
    /\ adding.provider = "google"
    /\ adding.bg = "cached"
    /\ IsSome(cache[adding.id])
    /\ \E row \in quota_snapshots : row.account_id = adding.id

\* the account row the last direct fetch was called for, as the store had it
\* before the call
FetchedRow ==
    {fetch.last.accounts[i] :
        i \in {j \in DOMAIN fetch.last.accounts :
                  fetch.last.accounts[j].id = fetch.last.account_id}}

\* the last direct fetch failed before anything was persisted: no such
\* account, no such provider, or decryption or the provider call failed
FailedBeforePersisting ==
    \/ FetchedRow = {}
    \/ \E row \in FetchedRow : row.provider \notin RegisteredProviders
    \/ fetch.last.fault \in {"decrypt", "provider"}

\* C22: fetch_account_quota surfaces failures with the durable state
\* unchanged.  When the account does not exist, its provider is unknown,
\* decryption fails or the provider call fails, the call returns an Err and
\* has inserted no snapshot and no model-usage row and has not changed the
\* last-synced time of any account.
C22_FailureLeavesStore ==
    (fetch.last.called /\ FailedBeforePersisting)
        => /\ fetch.last.result = "Err"
           /\ fetch.last.quota = None
           /\ ~fetch.last.inserted_snapshot
           /\ fetch.last.inserted_usage = 0
           /\ quota_snapshots = fetch.last.quota_snapshots
           /\ model_usage = fetch.last.model_usage
           /\ accounts = fetch.last.accounts

\* C22 witness: over a store that holds rows of an earlier fetch, the provider
\* call of a stored account has failed
C22_Witness ==
    /\ fetch.last.called
    /\ fetch.last.fault = "provider"
    /\ FetchedRow # {}
    /\ \A row \in FetchedRow : row.provider \in RegisteredProviders /\ IsSome(row.last_synced)
    /\ fetch.last.result = "Err"
    /\ quota_snapshots # {}

\* C23: a successful fetch_account_quota.  When the call returns Ok for a
\* provider result with n model-breakdown entries, it has inserted one
\* snapshot and n model-usage rows, all with the id of the account and the
\* timestamp of the result, has set the last-synced time of the account,
\* has changed no other field of it and no other account, and returns the
\* result with the id of the account.
C23_SuccessfulFetch ==
    (fetch.last.called /\ fetch.last.result = "Ok")
        => LET id == fetch.last.account_id
               response == fetch.last.response
               n == Len(response.model_breakdown)
               new_usage == model_usage \ fetch.last.model_usage
           IN /\ fetch.last.inserted_snapshot
              /\ fetch.last.inserted_usage = n
              /\ quota_snapshots =
                    fetch.last.quota_snapshots
                        \cup {[account_id |-> id, timestamp |-> response.timestamp,
                               quota_limit |-> response.quota_limit,
                               quota_remaining |-> response.quota_remaining]}
              /\ fetch.last.model_usage \subseteq model_usage
              /\ model_usage =
                    fetch.last.model_usage
                        \cup {[account_id |-> id, timestamp |-> response.timestamp,
                               model_name |-> response.model_breakdown[i]] : i \in 1..n}
              /\ Len(accounts) = Len(fetch.last.accounts)
              /\ \A i \in DOMAIN accounts :
                    IF fetch.last.accounts[i].id = id
                    THEN /\ accounts[i].last_synced = Some(fetch.last.time)
                         /\ accounts[i].id = id
                         /\ accounts[i].provider = fetch.last.accounts[i].provider
                    ELSE accounts[i] = fetch.last.accounts[i]
              /\ fetch.last.quota =
                    Some([account_id |-> id, timestamp |-> response.timestamp,
                          quota_limit |-> response.quota_limit,
                          quota_remaining |-> response.quota_remaining,
                          model_breakdown |-> response.model_breakdown])

\* C23 witness: a fetch of a1 with two model-breakdown entries has succeeded
\* at a later time than the fetch of a2, whose sync time it has left alone
C23_Witness ==
    /\ fetch.last.called
    /\ fetch.last.result = "Ok"
    /\ fetch.last.account_id = "a1"
    /\ Len(fetch.last.response.model_breakdown) = 2
    /\ Cardinality(model_usage) = 2
    /\ Len(accounts) = 2
    /\ IsSome(accounts[2].last_synced)
    /\ accounts[2].last_synced # accounts[1].last_synced

\* C24: validate_credentials does not touch the durable store or the cache.
\* The step of add_account that calls it, whether it succeeds or fails, leaves
\* accounts, snapshots, model-usage rows, notification state, settings and
\* the cache as they were; the account row of an add_account exists only
\* once its validation has succeeded; and an add_account whose validation
\* failed has left no account and no cache entry.
C24_ValidateLeavesStore ==
    /\ [][(adding.pc = "validating" /\ adding'.pc # "validating")
             => UNCHANGED <<accounts, quota_snapshots, model_usage,
                            notification_state, settings, cache>>]_vars
    /\ [](adding.pc # "idle"
             => /\ (get_account(adding.id) # None => IsSome(adding.initial_quota))
                /\ (IsSome(cache[adding.id]) => IsSome(adding.initial_quota))
                /\ (adding.pc = "refused"
                       => /\ get_account(adding.id) = None
                          /\ cache[adding.id] = None
                          /\ adding.initial_quota = None))

\* C24 witness: the provider has refused the credentials of an add_account
\* while the store holds a fetched snapshot and the cache a quota of the
\* stored account
C24_Witness ==
    /\ adding.pc = "refused"
    /\ adding.provider \in RegisteredProviders
    /\ adding.fault = "provider"
    /\ quota_snapshots # {}
    /\ \E k \in AccountIds : IsSome(cache[k])
    /\ get_account(adding.id) = None

\* C25: one slow provider does not block the others.  Within a fetch cycle,
\* every account other than the one whose provider call never returns is
\* eventually fetched, and then cached unless its own fetch failed.
C25_OthersNotBlocked ==
    \A id \in AccountIds \ {HungAccount} :
        (cycle[ManualRunner].phase = "fetch"
            /\ id \in Range(cycle[ManualRunner].todo))
          ~> (\/ id \in cycle[ManualRunner].fetched_err
              \/ id \in cycle[ManualRunner].cached)

\* C26: manual refresh of one account runs the pipeline of a scheduled cycle.
\* Every path that is about to call Cache.set with a fetched quota,
\* refresh_account as well as run_fetch_cycle, has persisted the snapshot of
\* that quota and has called check_and_notify for it.
C26_RefreshRunsPipeline ==
    \A p \in FetchPaths :
        fetch.path[p].pc = "to_cache"
            => /\ SnapshotRow(fetch.path[p].quota) \in quota_snapshots
               /\ fetch.path[p].checked

\* C27: cipher round trip and tamper detection under one key.  decrypt of
\* the ciphertext encrypt gave for P returns Ok(P); decrypt of a ciphertext
\* with one byte altered, of a truncated ciphertext and of a ciphertext
\* produced under another key returns an Encryption error and no plaintext;
\* and decrypt always returns.
C27_CipherRoundTrip ==
    /\ cipher.op = "encrypt"
          => /\ cipher.result = "Ok"
             /\ decrypt(cipher.key, Unwrap(cipher.output)).plaintext = Some(cipher.data)
    /\ cipher.op = "decrypt"
          => /\ cipher.result \in {"Ok", "Err"}
             /\ cipher.kind = "intact"
                   => cipher.result = "Ok" /\ cipher.output = Some(cipher.data)
             /\ cipher.kind \in {"altered", "truncated", "other_key"}
                   => /\ cipher.result = "Err"
                      /\ cipher.output = None
                      /\ decrypt(cipher.key, cipher.input).error = "Encryption"

\* C27 witness: decrypt has refused the ciphertext of a two-byte string in
\* which one byte of the body was altered to another byte
C27_Witness ==
    /\ cipher.op = "decrypt"
    /\ cipher.kind = "altered"
    /\ Len(cipher.data) = 2
    /\ cipher.input[1] \in Bytes
    /\ cipher.input[1] # AeadEncrypt(cipher.key, cipher.data)[1]
    /\ cipher.result = "Err"

\* the key a backend holds: the 32 bytes its string decodes to, if it does
HeldKey(content, trimmed) ==
    IF content = None THEN None
    ELSE LET decoded == B64Decode(IF trimmed THEN TrimEnd(Unwrap(content))
                                  ELSE Unwrap(content))
         IN IF decoded.result = "Ok" /\ Len(decoded.bytes) = KeyLen
            THEN Some(decoded.bytes) ELSE None

\* C28: key lifecycle at startup.  The key is the one of the credential
\* store when the store holds one; otherwise the one of the key file when the
\* file holds one; otherwise, with nothing in either, a fresh key is
\* generated and saved best-effort to the store and to the file, so that key
\* setup succeeds when the save to one of the two backends fails.
C28_KeyLifecycle ==
    keys.pc = "started"
        => LET last == keys.last
               in_store == IF last.env.keyring_get_ok
                           THEN HeldKey(last.keyring, FALSE) ELSE None
               in_file == IF last.env.data_dir = "ok" /\ last.env.file_read_ok
                          THEN HeldKey(last.file, TRUE) ELSE None
           IN /\ IsSome(in_store)
                    => last.result = "Ok" /\ last.key = in_store
              /\ (in_store = None /\ IsSome(in_file))
                    => last.result = "Ok" /\ last.key = in_file
              /\ (last.keyring = None /\ last.file = None
                      /\ (\/ last.env.keyring_set_ok
                          \/ last.env.data_dir = "ok" /\ last.env.file_write_ok))
                    => /\ last.result = "Ok"
                       /\ last.key = Some(last.fresh)
                       /\ last.env.keyring_set_ok
                             => keys.keyring = Some(B64Encode(last.fresh))
                       /\ (last.env.data_dir = "ok" /\ last.env.file_write_ok)
                             => keys.file = Some(B64Encode(last.fresh))

\* C29: the refresh_interval_seconds setting reconfigures the Scheduler.
\* Once every set_setting call that was made has completed, the interval of
\* the scheduler is the number stored for refresh_interval_seconds, if a
\* number is stored; and a step of a set_setting for another key leaves the
\* interval unchanged.
C29_IntervalFollowsSetting ==
    /\ []((/\ setting_call # <<>>
            /\ \A i \in SettingCalls : setting_call[i].pc \in {"done", "failed"}
            /\ IsSome(settings["refresh_interval_seconds"])
            /\ IsSome(ParseU64(Unwrap(settings["refresh_interval_seconds"]))))
           => interval_seconds =
                 Unwrap(ParseU64(Unwrap(settings["refresh_interval_seconds"]))))
    /\ [][\A i \in SettingCalls :
             (/\ setting_call[i].key # "refresh_interval_seconds"
              /\ setting_call'[i].pc # setting_call[i].pc)
                => interval_seconds' = interval_seconds]_vars

\* C30: every provider of the registry returns its QuotaData with an empty
\* account identifier.  The QuotaData validate_credentials hands to
\* add_account, which is the provider's as it returned it, has account_id "".
C30_ProvidersLeaveIdEmpty ==
    (adding.pc # "idle" /\ IsSome(adding.initial_quota))
        => /\ adding.provider \in RegisteredProviders
           /\ Unwrap(adding.initial_quota).account_id = ""

\* C31: at most one background loop.  After any sequence of start and stop
\* calls, at most one spawned loop is alive, and at most one task is inside a
\* scheduled fetch cycle.
C31_AtMostOneLoop ==
    /\ Cardinality(ActiveLoops) <= 1
    /\ Cardinality({t \in Tasks : task[t].pc = "cycle"}) <= 1

\* C37: equal start and end hours.  When quiet_hours_start and
\* quiet_hours_end hold the same hour, is_quiet_hours is true for every local
\* hour, and every check that reaches the quiet-hours gate is suppressed.
C37_EqualHoursAlwaysQuiet ==
    \A s \in WindowHours :
        (/\ settings["quiet_hours_start"] = Some(HourText(s))
         /\ settings["quiet_hours_end"] = Some(HourText(s)))
            => /\ \A h \in Hours : is_quiet_hours(h)
               /\ ReachedQuietGate => Suppressed

\* C37 witness: with both hours 06:00 a check at noon for a quota at 96% has
\* been suppressed
C37_Witness ==
    /\ ReachedQuietGate
    /\ settings["quiet_hours_start"] = Some(HourText(6))
    /\ settings["quiet_hours_end"] = Some(HourText(6))
    /\ last_check.hour = 12
    /\ last_check.quota.quota_remaining = Some(40)
    /\ Suppressed

\* C33: fetch_account_quota is all-or-nothing on the store.  Whenever the
\* call returns an Err, an Err of insert_model_usage or of
\* update_account_sync_time included, the store holds no snapshot and no
\* model-usage row that the call inserted.
C33_AllOrNothing ==
    (fetch.last.called /\ fetch.last.result = "Err")
        => /\ ~fetch.last.inserted_snapshot
           /\ fetch.last.inserted_usage = 0
           /\ quota_snapshots = fetch.last.quota_snapshots
           /\ model_usage = fetch.last.model_usage

\* the tiers the state read by the last check had stamped 24 hours or less
\* before the check
RecentlyStamped ==
    LET prior == IF IsSome(last_check.prior) THEN Unwrap(last_check.prior)
                 ELSE DefaultState(last_check.quota.account_id)
        recent(last_notified) ==
            /\ IsSome(last_notified)
            /\ last_check.time - Unwrap(last_notified) <= DaySeconds
    IN {tier \in Tiers :
          recent(CASE tier = 95 -> prior.last_95_percent_notified
                   [] tier = 90 -> prior.last_90_percent_notified
                   [] tier = 75 -> prior.last_75_percent_notified)}

C36_UndeliveredNotRetried ==
    /\ (/\ last_check.called
        /\ last_check.store_ok
        /\ last_check.sent # {}
        /\ last_check.delivered = {})
           => /\ last_check.result = "Ok"
              /\ last_check.wrote_state
              /\ IsSome(notification_state[last_check.quota.account_id])
              /\ \A tier \in last_check.sent :
                    TierStamp(Unwrap(notification_state[last_check.quota.account_id]),
                              tier) = Some(last_check.time)
    /\ last_check.called => last_check.sent \cap RecentlyStamped = {}

\* C36 witness: the sink refused the 95% notification of a first call, and a
\* second call at the same time has not sent for that tier again
C36_Witness ==
    /\ last_check.called
    /\ 95 \in RecentlyStamped
    /\ last_check.fired_95 = None
    /\ 95 \notin last_check.sent
    /\ Unwrap(last_check.prior).last_95_percent_notified = Some(last_check.time)

----------------------------------------------------------------------------
(* C40: the sleep between two scheduled cycles *)

\* the interval values the callers pass where the length of the sleep is
\* checked: u64's least value and a positive one
AcceptedIntervals == {0, 1}

\* the values set_setting("refresh_interval_seconds", v) is called with there
AcceptedIntervalTexts == {<<"0">>, <<"1">>}

\* SpecPace: the background loop of one started Scheduler while set_interval
\* and set_setting reconfigure it
InitPace == InitWith(OneAccount, NoSettings)

NextPace ==
    \/ Start
    \/ \E t \in Tasks : StartCycleStep(t)
    \/ \E t \in Tasks : StartSpawn(t)
    \/ \E t \in Tasks : LoopReadInterval(t)
    \/ Tick
    \/ \E t \in Tasks : LoopWake(t)
    \/ \E t \in Tasks : LoopCheck(t)
    \/ \E t \in Tasks : LoopCycleStep(t)
    \/ \E t \in Tasks : LoopCycleEnd(t)
    \/ \E seconds \in AcceptedIntervals : SetInterval(seconds)
    \/ \E value \in AcceptedIntervalTexts, store_ok \in BOOLEAN :
          set_setting("refresh_interval_seconds", value, store_ok)

SpecPace == InitPace /\ [][NextPace]_vars

\* C40: a loop whose sleep has ended, about to run its next scheduled cycle,
\* slept for a positive time and for no less than the interval it read
C40_PositiveSleep ==
    \A t \in Tasks :
        task[t].pc = "check"
            => /\ task[t].elapsed > 0
               /\ task[t].elapsed >= task[t].interval_secs

----------------------------------------------------------------------------
(* C32: check_and_notify calls that overlap *)

\* how many check_and_notify calls are made
MaxNotifyCalls == 2

\* the QuotaData the overlapping calls are made with: account a1 at 96% and
\* at 91% of a limit of 1000
OverlapQuotas ==
    {[account_id |-> "a1", timestamp |-> 0, quota_limit |-> Some(1000),
      quota_remaining |-> Some(remaining), model_breakdown |-> <<>>] :
        remaining \in {40, 90}}

NotifyCalls == DOMAIN notify_call

\* check_and_notify(quota) is called by a fetch cycle (the timer's or a manual
\* one): each runs in a task of its own
NotifyBegin ==
    /\ Len(notify_call) < MaxNotifyCalls
    /\ \E quota \in OverlapQuotas :
          notify_call' = Append(notify_call,
                                [pc |-> "read", quota |-> quota,
                                 state |-> DefaultState(quota.account_id),
                                 prior |-> None, tier |-> 0, time |-> 0,
                                 result |-> "pending"])
    /\ UNCHANGED <<sched_vars, cycle, cache, store_vars, notifier_vars, settings,
                   clock_vars, access_vars, service_vars, removing, locking>>

\* check_and_notify up to the row it reads: the notifications_enabled and
\* quiet hours gates, the percentage, then get_notification_state (an Err is
\* returned), or the default row when there is none
NotifyRead(i) ==
    /\ notify_call[i].pc = "read"
    /\ \E current_hour \in HourChoices, store_ok \in BOOLEAN :
          LET call == notify_call[i]
              enabled == IF IsSome(get_setting("notifications_enabled"))
                         THEN Unwrap(get_setting("notifications_enabled"))
                         ELSE Str_true
              stored == notification_state[call.quota.account_id]
          IN notify_call' =
                [notify_call EXCEPT
                   ![i] = IF \/ enabled # Str_true
                             \/ is_quiet_hours(current_hour)
                             \/ ~IsSome(calculate_usage_percentage(call.quota))
                          THEN [call EXCEPT !.pc = "done", !.result = "Ok"]
                          ELSE IF ~store_ok
                               THEN [call EXCEPT !.pc = "done", !.result = "Err"]
                               ELSE [call EXCEPT
                                       !.pc = "send",
                                       !.prior = stored,
                                       !.state =
                                          IF IsSome(stored) THEN Unwrap(stored)
                                          ELSE DefaultState(call.quota.account_id)]]
    /\ UNCHANGED <<sched_vars, cycle, cache, store_vars, notifier_vars, settings,
                   clock_vars, access_vars, service_vars, removing, locking>>

\* check_and_notify once the row is there: Utc::now(), the if / else if chain
\* over the row it read, send_notification for the tier that fires and that
\* tier's timestamp set in its copy of the row
NotifySend(i) ==
    /\ notify_call[i].pc = "send"
    /\ LET call == notify_call[i]
           tier == FiringTier(Unwrap(calculate_usage_percentage(call.quota)),
                              call.state, now - DaySeconds)
       IN notify_call' =
             [notify_call EXCEPT
                ![i] = [call EXCEPT !.pc = "write", !.tier = tier, !.time = now,
                                    !.state = Stamp(call.state, tier, now)]]
    /\ UNCHANGED <<sched_vars, cycle, cache, store_vars, notifier_vars, settings,
                   clock_vars, access_vars, service_vars, removing, locking>>

\* check_and_notify: update_notification_state(&state), an INSERT OR REPLACE
\* of the whole row (an Err is returned), then Ok
NotifyWrite(i) ==
    /\ notify_call[i].pc = "write"
    /\ \E store_ok \in BOOLEAN :
          /\ notification_state' =
                IF store_ok
                THEN [notification_state EXCEPT
                        ![notify_call[i].quota.account_id] = Some(notify_call[i].state)]
                ELSE notification_state
          /\ notify_call' =
                [notify_call EXCEPT
                   ![i].pc = "done",
                   ![i].result = IF store_ok THEN "Ok" ELSE "Err"]
    /\ UNCHANGED <<sched_vars, cycle, cache, store_vars, last_check, settings,
                   clock_vars, access_vars, service_vars, removing, locking>>

\* SpecNotifyRace: check_and_notify calls for one account that overlap, while
\* time passes
InitNotifyRace == InitWith(OneAccount, NoSettings)

NextNotifyRace ==
    \/ NotifyBegin
    \/ \E i \in NotifyCalls : NotifyRead(i)
    \/ \E i \in NotifyCalls : NotifySend(i)
    \/ \E i \in NotifyCalls : NotifyWrite(i)
    \/ \E d \in ClockSteps : AdvanceClock(d)

SpecNotifyRace == InitNotifyRace /\ [][NextNotifyRace]_vars

\* the calls that returned Ok after sending for a tier
SentAndStored ==
    {i \in NotifyCalls : /\ notify_call[i].pc = "done"
                         /\ notify_call[i].result = "Ok"
                         /\ notify_call[i].tier # 0}

\* no two calls that both returned Ok fired the same tier from the same row
NoDoubleFire ==
    \A i, j \in SentAndStored :
        (/\ i # j
         /\ notify_call[i].tier = notify_call[j].tier)
            => notify_call[i].prior # notify_call[j].prior

\* while all calls made have returned, the timestamp a call stored for the
\* tier it fired is still in the row, or a later one is
NoLostStamp ==
    (\A i \in NotifyCalls : notify_call[i].pc = "done")
        => \A i \in SentAndStored :
              LET stored == notification_state[notify_call[i].quota.account_id]
                  stamp == TierStamp(RowOf(stored, notify_call[i].quota.account_id),
                                     notify_call[i].tier)
              IN /\ IsSome(stamp)
                 /\ Unwrap(stamp) >= notify_call[i].time

\* C32: overlapping check_and_notify calls for one account behave as calls
\* made one after the other: no two of them fire the same tier from the same
\* prior row, and no timestamp one of them stored is replaced by an older or
\* an absent one
C32_OverlapAsIfSerial == NoDoubleFire /\ NoLostStamp

----------------------------------------------------------------------------
(* C34: remove_account while a fetch of the account is in flight *)

\* Repository::delete_account: DELETE FROM accounts WHERE id = ?
delete_account(id) == SelectSeq(accounts, LAMBDA row : row.id # id)

\* the remove_account command is invoked for the fetched account
RemoveBegin ==
    /\ removing.pc = "idle"
    /\ removing' = [removing EXCEPT !.pc = "delete", !.id = FetchedAccount]
    /\ UNCHANGED <<sched_vars, cycle, cache, store_vars, notifier_vars, settings,
                   clock_vars, access_vars, service_vars, notify_call,
                   locking>>

\* remove_account: Repository::delete_account; an Err is returned
RemoveDelete ==
    /\ removing.pc = "delete"
    /\ \E store_ok \in BOOLEAN :
          /\ accounts' = IF store_ok THEN delete_account(removing.id) ELSE accounts
          /\ removing' = [removing EXCEPT !.pc = IF store_ok THEN "cache" ELSE "failed"]
    /\ UNCHANGED <<sched_vars, cycle, cache, quota_snapshots, model_usage,
                   notifier_vars, settings, clock_vars, access_vars, service_vars,
                   notify_call, locking>>

\* remove_account: Cache::remove, then Ok
RemoveCache ==
    /\ removing.pc = "cache"
    /\ cache' = CacheRemove(removing.id)
    /\ removing' = [removing EXCEPT !.pc = "done", !.returned = TRUE]
    /\ UNCHANGED <<sched_vars, cycle, store_vars, notifier_vars, settings,
                   clock_vars, access_vars, service_vars, notify_call,
                   locking>>

\* SpecRemoval: the account is removed while the timer's cycle and a
\* refresh_account fetch it
InitRemoval == InitWith(OneAccount, NoSettings)

NextRemoval ==
    \/ \E p \in FetchPaths : FetchBegin(p)
    \/ \E p \in FetchPaths : FetchAccount(p)
    \/ FetchNotify
    \/ \E p \in FetchPaths : FetchCacheSet(p)
    \/ RemoveBegin
    \/ RemoveDelete
    \/ RemoveCache

SpecRemoval == InitRemoval /\ [][NextRemoval]_vars

\* no fetch and no remove_account call is in flight
Quiescent ==
    /\ \A p \in FetchPaths : fetch.path[p].pc = "idle"
    /\ removing.pc \in {"idle", "failed", "done"}

\* the ids of the stored accounts
StoredAccountIds == {accounts[i].id : i \in DOMAIN accounts}

\* C34: once remove_account(id) has returned Ok the cache has no entry for
\* id, whatever fetch of id was in flight during the removal, and in every
\* quiescent state the keys of the cache are ids of stored accounts
C34_RemovedNotCached ==
    /\ removing.returned => ~IsSome(cache[removing.id])
    /\ Quiescent => {a \in AccountIds : IsSome(cache[a])} \subseteq StoredAccountIds

----------------------------------------------------------------------------
(* C38: the guards of the RwLocks, acquired and dropped one by one *)

\* RwLock::read can be granted: no write guard is out
CanRead(lock) == \A g \in locking.guards[lock] : g[2] = "read"

\* RwLock::write can be granted: no guard is out
CanWrite(lock) == locking.guards[lock] = {}

\* the guards once `user` has been granted one of the given mode
Acquire(guards, lock, user, mode) ==
    [guards EXCEPT ![lock] = @ \cup {<<user, mode>>}]

\* a guard that is kept beyond the statement that took it
KeepGuard(guards, lock, user) == guards

\* the guards once a named guard goes out of scope (the end of start's block,
\* of stop, of set_interval, of Cache::set)
DropGuard(guards, lock, user) ==
    [guards EXCEPT ![lock] = {g \in @ : g[1] # user}]

\* the guards once the temporary guard of `*interval.read().await` or of
\* `!*running.read().await` is dropped, at the end of the let statement or of
\* the if condition
DropTemporary(guards, lock, user) ==
    [guards EXCEPT ![lock] = {g \in @ : g[1] # user}]

\* what the steps below leave alone besides the store, the flags and the cache
lock_frame == <<task, manual, last_start, cycle, settings, clock_vars, last_check,
                access_vars, service_vars, notify_call, removing>>

\* the users that run a fetch cycle, and where each goes when it is over
CycleRunners == {"start", "run_fetch_cycle", "loop"}

AfterCycle(u) ==
    CASE u = "start" -> "spawn"
      [] u = "run_fetch_cycle" -> "idle"
      [] u = "loop" -> "read_interval"

\* start() is called (the model has one loop at a time: while none is alive)
LockStartCall ==
    /\ locking.pc["start"] = "idle"
    /\ locking.pc["loop"] \in {"unused", "exited"}
    /\ locking' = [locking EXCEPT !.pc["start"] = "acquire"]
    /\ UNCHANGED <<running, interval_seconds, cache, store_vars,
                   notification_state, lock_frame>>

\* start: self.running.write().await is granted
LockStartAcquire ==
    /\ locking.pc["start"] = "acquire"
    /\ CanWrite("running")
    /\ locking' = [locking EXCEPT
                     !.guards = Acquire(@, "running", "start", "write"),
                     !.pc["start"] = "locked"]
    /\ UNCHANGED <<running, interval_seconds, cache, store_vars,
                   notification_state, lock_frame>>

\* start: the block under the guard: return if the flag is set, else set it;
\* the guard is dropped at the end of the block either way
LockStartFlag ==
    /\ locking.pc["start"] = "locked"
    /\ running' = TRUE
    /\ locking' = [locking EXCEPT
                     !.guards = DropGuard(@, "running", "start"),
                     !.pc["start"] = IF running THEN "idle" ELSE "fetch"]
    /\ UNCHANGED <<interval_seconds, cache, store_vars, notification_state,
                   lock_frame>>

\* start: tokio::spawn of the loop, then start returns
LockStartSpawn ==
    /\ locking.pc["start"] = "spawn"
    /\ locking' = [locking EXCEPT !.pc["start"] = "idle",
                                  !.pc["loop"] = "read_interval"]
    /\ UNCHANGED <<running, interval_seconds, cache, store_vars,
                   notification_state, lock_frame>>

\* run_fetch_cycle() is called by refresh_now
LockManualCall ==
    /\ locking.pc["run_fetch_cycle"] = "idle"
    /\ locking' = [locking EXCEPT !.pc["run_fetch_cycle"] = "fetch"]
    /\ UNCHANGED <<running, interval_seconds, cache, store_vars,
                   notification_state, lock_frame>>

\* the failures of fetch_account_quota taken where the locks are followed:
\* none, or the provider's
LockCycleFaults == {"none", "provider"}

\* a fetch cycle: fetch_all_quotas over the one account: the store and the
\* provider are awaited with no guard taken; an Err leaves the cycle without
\* a quota, which ends it
LockCycleFetch(u) ==
    /\ locking.pc[u] = "fetch"
    /\ \E fault \in LockCycleFaults, response \in ResponsesFor(FetchedAccount) :
          \E res \in {fetch_account_quota(FetchedAccount, fault, response)} :
             /\ accounts' = res.accounts
             /\ quota_snapshots' = res.quota_snapshots
             /\ model_usage' = res.model_usage
             /\ locking' = IF res.result = "Ok"
                            THEN [locking EXCEPT !.pc[u] = "notify",
                                                 !.quota[u] = res.quota]
                            ELSE [locking EXCEPT !.pc[u] = AfterCycle(u)]
    /\ UNCHANGED <<running, interval_seconds, cache, notification_state,
                   lock_frame>>

\* a fetch cycle: check_and_notify for the quota, an Err logged
LockCycleNotify(u) ==
    /\ locking.pc[u] = "notify"
    /\ \E current_hour \in HourChoices, fault \in NotifierFaults, sink_ok \in BOOLEAN :
          notification_state' =
              check_and_notify(Unwrap(locking.quota[u]), current_hour, fault,
                               sink_ok).table
    /\ locking' = [locking EXCEPT !.pc[u] = "cache_acquire"]
    /\ UNCHANGED <<running, interval_seconds, cache, store_vars, lock_frame>>

\* Cache::set: self.data.write().await is granted
LockCacheAcquire(u) ==
    /\ locking.pc[u] = "cache_acquire"
    /\ CanWrite("cache")
    /\ locking' = [locking EXCEPT
                     !.guards = Acquire(@, "cache", u, "write"),
                     !.pc[u] = "cache_locked"]
    /\ UNCHANGED <<running, interval_seconds, cache, store_vars,
                   notification_state, lock_frame>>

\* Cache::set: the insert, and the guard dropped as set returns; the cycle is
\* over
LockCacheSet(u) ==
    /\ locking.pc[u] = "cache_locked"
    /\ cache' = CacheSet(FetchedAccount, Unwrap(locking.quota[u]))
    /\ locking' = [locking EXCEPT
                     !.guards = DropGuard(@, "cache", u),
                     !.pc[u] = AfterCycle(u),
                     !.quota[u] = None]
    /\ UNCHANGED <<running, interval_seconds, store_vars, notification_state,
                   lock_frame>>

\* the loop: interval.read().await is granted
LockLoopIntervalAcquire ==
    /\ locking.pc["loop"] = "read_interval"
    /\ CanRead("interval_seconds")
    /\ locking' = [locking EXCEPT
                     !.guards = Acquire(@, "interval_seconds", "loop", "read"),
                     !.pc["loop"] = "interval_locked"]
    /\ UNCHANGED <<running, interval_seconds, cache, store_vars,
                   notification_state, lock_frame>>

\* the loop: let interval_secs = *guard; the sleep begins
LockLoopIntervalRead ==
    /\ locking.pc["loop"] = "interval_locked"
    /\ locking' = [locking EXCEPT
                     !.guards = DropTemporary(@, "interval_seconds", "loop"),
                     !.interval_secs = interval_seconds,
                     !.pc["loop"] = "sleep"]
    /\ UNCHANGED <<running, interval_seconds, cache, store_vars,
                   notification_state, lock_frame>>

\* the loop: time::sleep returns
LockLoopWake ==
    /\ locking.pc["loop"] = "sleep"
    /\ locking' = [locking EXCEPT !.pc["loop"] = "check"]
    /\ UNCHANGED <<running, interval_seconds, cache, store_vars,
                   notification_state, lock_frame>>

\* the loop: running.read().await is granted
LockLoopRunningAcquire ==
    /\ locking.pc["loop"] = "check"
    /\ CanRead("running")
    /\ locking' = [locking EXCEPT
                     !.guards = Acquire(@, "running", "loop", "read"),
                     !.pc["loop"] = "running_locked"]
    /\ UNCHANGED <<running, interval_seconds, cache, store_vars,
                   notification_state, lock_frame>>

\* the loop: if !*guard { break }, else the scheduled cycle
LockLoopRunningRead ==
    /\ locking.pc["loop"] = "running_locked"
    /\ locking' = [locking EXCEPT
                     !.guards = DropTemporary(@, "running", "loop"),
                     !.pc["loop"] = IF running THEN "fetch" ELSE "exited"]
    /\ UNCHANGED <<running, interval_seconds, cache, store_vars,
                   notification_state, lock_frame>>

\* stop() is called
LockStopCall ==
    /\ locking.pc["stop"] = "idle"
    /\ locking' = [locking EXCEPT !.pc["stop"] = "acquire"]
    /\ UNCHANGED <<running, interval_seconds, cache, store_vars,
                   notification_state, lock_frame>>

\* stop: self.running.write().await is granted
LockStopAcquire ==
    /\ locking.pc["stop"] = "acquire"
    /\ CanWrite("running")
    /\ locking' = [locking EXCEPT
                     !.guards = Acquire(@, "running", "stop", "write"),
                     !.pc["stop"] = "locked"]
    /\ UNCHANGED <<running, interval_seconds, cache, store_vars,
                   notification_state, lock_frame>>

\* stop: *running = false, and the guard dropped as stop returns
LockStopReturn ==
    /\ locking.pc["stop"] = "locked"
    /\ running' = FALSE
    /\ locking' = [locking EXCEPT
                     !.guards = DropGuard(@, "running", "stop"),
                     !.pc["stop"] = "idle"]
    /\ UNCHANGED <<interval_seconds, cache, store_vars, notification_state,
                   lock_frame>>

\* set_interval(seconds) is called
LockSetIntervalCall(seconds) ==
    /\ locking.pc["set_interval"] = "idle"
    /\ locking' = [locking EXCEPT !.pc["set_interval"] = "acquire",
                                  !.seconds = seconds]
    /\ UNCHANGED <<running, interval_seconds, cache, store_vars,
                   notification_state, lock_frame>>

\* set_interval: self.interval_seconds.write().await is granted
LockSetIntervalAcquire ==
    /\ locking.pc["set_interval"] = "acquire"
    /\ CanWrite("interval_seconds")
    /\ locking' = [locking EXCEPT
                     !.guards = Acquire(@, "interval_seconds", "set_interval", "write"),
                     !.pc["set_interval"] = "locked"]
    /\ UNCHANGED <<running, interval_seconds, cache, store_vars,
                   notification_state, lock_frame>>

\* set_interval: *interval = seconds, and the guard dropped as it returns
LockSetIntervalReturn ==
    /\ locking.pc["set_interval"] = "locked"
    /\ interval_seconds' = locking.seconds
    /\ locking' = [locking EXCEPT
                     !.guards = DropGuard(@, "interval_seconds", "set_interval"),
                     !.pc["set_interval"] = "idle"]
    /\ UNCHANGED <<running, cache, store_vars, notification_state, lock_frame>>

\* SpecLocks: start, stop, set_interval, run_fetch_cycle and the loop, each
\* taking and dropping its guards
InitLocks == InitWith(OneAccount, NoSettings)

NextLocks ==
    \/ LockStartCall
    \/ LockStartAcquire
    \/ LockStartFlag
    \/ LockStartSpawn
    \/ LockManualCall
    \/ \E u \in CycleRunners : LockCycleFetch(u)
    \/ \E u \in CycleRunners : LockCycleNotify(u)
    \/ \E u \in CycleRunners : LockCacheAcquire(u)
    \/ \E u \in CycleRunners : LockCacheSet(u)
    \/ LockLoopIntervalAcquire
    \/ LockLoopIntervalRead
    \/ LockLoopWake
    \/ LockLoopRunningAcquire
    \/ LockLoopRunningRead
    \/ LockStopCall
    \/ LockStopAcquire
    \/ LockStopReturn
    \/ \E seconds \in Intervals : LockSetIntervalCall(seconds)
    \/ LockSetIntervalAcquire
    \/ LockSetIntervalReturn

SpecLocks == InitLocks /\ [][NextLocks]_vars

\* FairLocks: SpecLocks where the runtime keeps polling a task that holds a
\* guard of the Scheduler's and can go on without waiting for anything, and
\* where a lock serves a waiting stop or set_interval in its turn (tokio's
\* RwLock queues its waiters); nothing is assumed about a sleep ending, about
\* the provider, the store or the notifier returning, or about the other
\* users getting their locks
FairLocks ==
    /\ SpecLocks
    /\ WF_vars(LockStartFlag)
    /\ WF_vars(LockLoopIntervalRead)
    /\ WF_vars(LockLoopRunningRead)
    /\ WF_vars(LockStopReturn)
    /\ WF_vars(LockSetIntervalReturn)
    /\ SF_vars(LockStopAcquire)
    /\ SF_vars(LockSetIntervalAcquire)

\* where a user is while it awaits a sleep, the provider, the store or the
\* notifier
AwaitingOutside == {"sleep", "fetch", "notify"}

\* where a user is while it holds a guard: its next step drops it
HoldingGuard == {"locked", "cache_locked", "interval_locked", "running_locked"}

\* the locks on which a user holds a guard
GuardsOf(u) == {l \in Locks : \E g \in locking.guards[l] : g[1] = u}

\* no guard is held across a sleep, a provider call or a store operation, and
\* whoever holds a guard is at the step that drops it
NoGuardAcrossAwait ==
    \A u \in LockUsers :
        /\ locking.pc[u] \in AwaitingOutside => GuardsOf(u) = {}
        /\ GuardsOf(u) # {} => locking.pc[u] \in HoldingGuard

\* C38: no guard of the Scheduler's or the Cache's lock is held across a
\* sleep, a provider call or a store operation, so a stop or set_interval
\* call that waits for its lock gets it and returns, whether or not the sleep
\* ends or the fetch in progress returns
C38_StopAndSetIntervalDoNotWait ==
    /\ []NoGuardAcrossAwait
    /\ (locking.pc["stop"] = "acquire") ~> (locking.pc["stop"] = "idle")
    /\ (locking.pc["set_interval"] = "acquire") ~> (locking.pc["set_interval"] = "idle")

\* stop holds its guard while the loop sleeps and a manual cycle awaits the
\* provider, and set_interval holds its guard too
C38_Witness ==
    /\ locking.pc["stop"] = "locked"
    /\ locking.pc["set_interval"] = "locked"
    /\ locking.pc["loop"] = "sleep"
    /\ locking.pc["run_fetch_cycle"] = "fetch"
    /\ running

----------------------------------------------------------------------------
(* C39: the key over the starts of one installation *)

\* how often the application is started
MaxRestarts == 3

\* a fresh installation: the credential store has no entry and there is no
\* key file; keys.first is the key of the first start that obtained one
KeyPristine ==
    /\ keys.pc = "unused"
    /\ keys' = [pc |-> "installed", starts |-> 0, keyring |-> None, file |-> None,
                first |-> None, last |-> [result |-> "none", key |-> None]]
    /\ UNCHANGED <<sched_vars, cycle, cache, store_vars, notifier_vars, settings,
                   clock_vars, access_vars, adding, cipher, setting_call,
                   race_vars>>

\* the application starts once more: CryptoService::new calls
\* get_or_create_master_key over what the earlier starts left in the
\* credential store and the key file
KeyRestart ==
    /\ keys.pc \in {"installed", "started"}
    /\ keys.starts < MaxRestarts
    /\ \E env \in KeyEnvs, fresh \in MasterKeys :
          \E res \in {get_or_create_master_key(keys.keyring, keys.file, env, fresh)} :
             keys' = [pc |-> "started", starts |-> keys.starts + 1,
                      keyring |-> res.keyring, file |-> res.file,
                      first |-> IF IsSome(keys.first) THEN keys.first ELSE res.key,
                      last |-> [result |-> res.result, key |-> res.key]]
    /\ UNCHANGED <<sched_vars, cycle, cache, store_vars, notifier_vars, settings,
                   clock_vars, access_vars, adding, cipher, setting_call,
                   race_vars>>

\* SpecRestarts: a fresh installation started again and again, each start
\* meeting a credential store and a file system that may or may not work
InitRestarts == InitWith(OneAccount, NoSettings)

NextRestarts ==
    \/ KeyPristine
    \/ KeyRestart

SpecRestarts == InitRestarts /\ [][NextRestarts]_vars

\* C39: every start that obtains a key obtains the key of the first start
\* that obtained one
C39_KeyStableAcrossRestarts ==
    (keys.pc = "started" /\ keys.last.result = "Ok")
        => keys.last.key = keys.first

====
